---- MODULE Spec2Model ----
(***************************************************************************)
(* Tab transfer engine of obsidian-workspace-manager.                      *)
(*                                                                         *)
(* Two implementations of the same engine are modelled side by side:       *)
(*   impl = "offline" : offline-manager/src/workspaceManager.ts            *)
(*   impl = "plugin"  : src/WorkspaceManager.ts (second class of the file) *)
(*                                                                         *)
(* A layout tree node is the record                                        *)
(*   [id, type, hasKids, kids, file]                                       *)
(* where hasKids tells whether the `children` property is present (the     *)
(* code tests `node.children` for truthiness; an empty array is truthy)    *)
(* and file is state.state.file, "" when unset (falsy in the code).        *)
(***************************************************************************)
EXTENDS Integers, Sequences, FiniteSets, TLC

\* ------------------------------------------------------------------------
\* Bounds of the model
\* ------------------------------------------------------------------------
MaxCalls == 2
MaxClock == 2
MaxFaults == 1
MaxRequests == 2
MaxChildren == 2

\* ------------------------------------------------------------------------
\* Program constants
\* ------------------------------------------------------------------------
DefaultMaxBackups == 10

\* ------------------------------------------------------------------------
\* Nodes
\* ------------------------------------------------------------------------
Leaf(id, file) ==
    [id |-> id, type |-> "leaf", hasKids |-> FALSE, kids |-> <<>>, file |-> file]

Tabs(id, kids) ==
    [id |-> id, type |-> "tabs", hasKids |-> TRUE, kids |-> kids, file |-> ""]

TabsNoChildren(id) ==
    [id |-> id, type |-> "tabs", hasKids |-> FALSE, kids |-> <<>>, file |-> ""]

Split(id, kids) ==
    [id |-> id, type |-> "split", hasKids |-> TRUE, kids |-> kids, file |-> ""]

\* Array helpers (Array.prototype.splice(i, 1), push, filter)
RemoveAt(s, i) == SubSeq(s, 1, i - 1) \o SubSeq(s, i + 1, Len(s))

RECURSIVE FilterOutId(_, _)
FilterOutId(s, tabId) ==
    IF s = <<>> THEN <<>>
    ELSE IF Head(s).id = tabId THEN FilterOutId(Tail(s), tabId)
    ELSE <<Head(s)>> \o FilterOutId(Tail(s), tabId)

\* children.findIndex(c => c.id === tabId), 0 when there is none (-1 in the code)
RECURSIVE FindIndexFrom(_, _, _)
FindIndexFrom(s, tabId, i) ==
    IF i > Len(s) THEN 0
    ELSE IF s[i].id = tabId THEN i
    ELSE FindIndexFrom(s, tabId, i + 1)

FindIndex(s, tabId) == FindIndexFrom(s, tabId, 1)

\* A position in a tree is the sequence of child indices leading to it from
\* the root; NotFound stands for the code's null.
NotFound == <<0>>

RECURSIVE NodeAt(_, _)
NodeAt(node, path) ==
    IF path = <<>> THEN node ELSE NodeAt(node.kids[Head(path)], Tail(path))

RECURSIVE ReplaceAt(_, _, _)
ReplaceAt(node, path, new) ==
    IF path = <<>> THEN new
    ELSE [node EXCEPT !.kids[Head(path)] = ReplaceAt(@, Tail(path), new)]

Front(path) == SubSeq(path, 1, Len(path) - 1)

\* ------------------------------------------------------------------------
\* Tree Navigator
\* ------------------------------------------------------------------------

\* An extraction that lists every leaf, also one without a file.
RECURSIVE extractFromNodeAnyLeaf(_)
RECURSIVE extractFromNodesAnyLeaf(_)
extractFromNodeAnyLeaf(node) ==
    IF node.type = "leaf"
    THEN <<[id |-> node.id, filePath |-> node.file]>>
    ELSE IF node.hasKids THEN extractFromNodesAnyLeaf(node.kids)
    ELSE <<>>

extractFromNodesAnyLeaf(s) ==
    IF s = <<>> THEN <<>>
    ELSE extractFromNodeAnyLeaf(Head(s)) \o extractFromNodesAnyLeaf(Tail(s))

\* extractTabsFromWorkspace: pre-order list of the leaves that have a file.
\* A tab is [id, filePath]; the title is derived from filePath and is left out.
RECURSIVE extractFromNode(_)
RECURSIVE extractFromNodes(_)
extractFromNode(node) ==
    IF node.type = "leaf" /\ node.file # ""
    THEN <<[id |-> node.id, filePath |-> node.file]>>
    ELSE IF node.hasKids THEN extractFromNodes(node.kids)
    ELSE <<>>

extractFromNodes(s) ==
    IF s = <<>> THEN <<>>
    ELSE extractFromNode(Head(s)) \o extractFromNodes(Tail(s))

extractTabsFromWorkspace(workspace) == extractFromNode(workspace.main)

\* offline findTabRecursive: first node in pre-order, the root included, whose
\* id matches and whose type is leaf. The result is the position of the node;
\* the position <<>> is the root, for which the code throws (no parent).
RECURSIVE findTabRecursive(_, _)
RECURSIVE findTabRecursiveIn(_, _, _)
findTabRecursive(node, tabId) ==
    IF node.id = tabId /\ node.type = "leaf" THEN <<>>
    ELSE IF node.hasKids THEN findTabRecursiveIn(node.kids, tabId, 1)
    ELSE NotFound

findTabRecursiveIn(s, tabId, i) ==
    IF i > Len(s) THEN NotFound
    ELSE LET r == findTabRecursive(s[i], tabId)
         IN  IF r # NotFound THEN <<i>> \o r
             ELSE findTabRecursiveIn(s, tabId, i + 1)

\* plugin findTabInWorkspace: looks at the children of each node only, so the
\* root itself is never a match.
RECURSIVE findTabInWorkspaceIn(_, _, _)
findTabInNode(node, tabId) ==
    IF node.hasKids THEN findTabInWorkspaceIn(node.kids, tabId, 1) ELSE NotFound

findTabInWorkspaceIn(s, tabId, i) ==
    IF i > Len(s) THEN NotFound
    ELSE IF s[i].id = tabId /\ s[i].type = "leaf" THEN <<i>>
    ELSE LET r == findTabInNode(s[i], tabId)
         IN  IF r # NotFound THEN <<i>> \o r
             ELSE findTabInWorkspaceIn(s, tabId, i + 1)

findTabInWorkspace(workspace, tabId) == findTabInNode(workspace.main, tabId)

\* findFirstTabsNode / findFirstTabGroup: first node of type tabs in pre-order.
RECURSIVE findFirstTabsNode(_)
RECURSIVE findFirstTabsNodeIn(_, _)
findFirstTabsNode(node) ==
    IF node.type = "tabs" THEN <<>>
    ELSE IF node.hasKids THEN findFirstTabsNodeIn(node.kids, 1)
    ELSE NotFound

findFirstTabsNodeIn(s, i) ==
    IF i > Len(s) THEN NotFound
    ELSE LET r == findFirstTabsNode(s[i])
         IN  IF r # NotFound THEN <<i>> \o r
             ELSE findFirstTabsNodeIn(s, i + 1)

\* targetNode.children.push(tab), creating the array when it is missing
PushChild(node, tab) ==
    [node EXCEPT !.hasKids = TRUE, !.kids = Append(@, tab)]

NewTabsId(t) == "tabs-" \o ToString(t)


\* ------------------------------------------------------------------------
\* Tab Transfer Operations on the in-memory document. `ws` is the
\* workspaces mapping (layout name -> layout), `t` the current time.
\* ------------------------------------------------------------------------

\* offline addTabToWorkspace: without a tabs node the tab goes into a new
\* tabs node only if main is a split with a children array; otherwise the
\* code logs an error and main stays as it is.
addTabToWorkspaceOff(main, tab, t) ==
    LET p == findFirstTabsNode(main)
    IN  IF p # NotFound
        THEN ReplaceAt(main, p, PushChild(NodeAt(main, p), tab))
        ELSE IF main.type = "split" /\ main.hasKids
        THEN [main EXCEPT !.kids = Append(@, Tabs(NewTabsId(t), <<tab>>))]
        ELSE main

\* plugin addTabToWorkspace: without a tabs node, a main that is not a split
\* with children is turned in place into a split (it keeps its id and its
\* state) whose only child is a shallow copy of the old main; then a new
\* tabs node is appended to main and receives the tab.
addTabToWorkspacePlug(main, tab, t) ==
    LET p == findFirstTabsNode(main)
    IN  IF p # NotFound
        THEN ReplaceAt(main, p, PushChild(NodeAt(main, p), tab))
        ELSE LET m == IF main.type # "split" \/ ~main.hasKids
                      THEN [main EXCEPT !.type = "split", !.hasKids = TRUE,
                                        !.kids = <<main>>]
                      ELSE main
             IN  [m EXCEPT !.kids = Append(@, Tabs(NewTabsId(t), <<tab>>))]

\* plugin removeTabFromWorkspace: filters every child with the id out of the
\* parent of the first match. Yields the new main and whether a tab was found.
removeTabFromWorkspace(main, tabId) ==
    LET p == findTabInNode(main, tabId)
    IN  IF p = NotFound THEN [main |-> main, found |-> FALSE]
        ELSE LET parent == NodeAt(main, Front(p))
             IN  [main  |-> ReplaceAt(main, Front(p),
                               [parent EXCEPT !.kids = FilterOutId(@, tabId)]),
                  found |-> TRUE]

\* Loop of the offline moveTabsBetweenWorkspaces (lines 253-264). threw is
\* TRUE when findTabRecursive met the tab at the root ('no parent').
\* A move loop that treats an id missing from the source as an error,
\* where the code skips it.
RECURSIVE moveLoopOffStrict(_, _, _, _, _)
moveLoopOffStrict(ws, src, tgt, tabIds, t) ==
    IF tabIds = <<>> THEN [ws |-> ws, threw |-> FALSE]
    ELSE LET tabId == Head(tabIds)
             p     == findTabRecursive(ws[src].main, tabId)
         IN  IF p = <<>> \/ p = NotFound THEN [ws |-> ws, threw |-> TRUE]
             ELSE LET parent == NodeAt(ws[src].main, Front(p))
                      index  == FindIndex(parent.kids, tabId)
                      removedTab == parent.kids[index]
                      ws1 == [ws EXCEPT ![src].main =
                                 ReplaceAt(@, Front(p),
                                   [parent EXCEPT !.kids = RemoveAt(@, index)])]
                      ws2 == [ws1 EXCEPT ![tgt].main =
                                 addTabToWorkspaceOff(@, removedTab, t)]
                  IN  moveLoopOffStrict(ws2, src, tgt, Tail(tabIds), t)

RECURSIVE moveLoopOff(_, _, _, _, _)
moveLoopOff(ws, src, tgt, tabIds, t) ==
    IF tabIds = <<>> THEN [ws |-> ws, threw |-> FALSE]
    ELSE LET tabId == Head(tabIds)
             p     == findTabRecursive(ws[src].main, tabId)
         IN  IF p = <<>> THEN [ws |-> ws, threw |-> TRUE]
             ELSE IF p = NotFound
             THEN moveLoopOff(ws, src, tgt, Tail(tabIds), t)
             ELSE LET parent == NodeAt(ws[src].main, Front(p))
                      index  == FindIndex(parent.kids, tabId)
                      removedTab == parent.kids[index]
                      ws1 == [ws EXCEPT ![src].main =
                                 ReplaceAt(@, Front(p),
                                   [parent EXCEPT !.kids = RemoveAt(@, index)])]
                      ws2 == [ws1 EXCEPT ![tgt].main =
                                 addTabToWorkspaceOff(@, removedTab, t)]
                  IN  moveLoopOff(ws2, src, tgt, Tail(tabIds), t)

\* Loop of the offline copyTabsBetweenWorkspaces (lines 294-301): the found
\* node is deep-cloned (JSON round trip, the value itself here) and added.
RECURSIVE copyLoopOff(_, _, _, _, _)
copyLoopOff(ws, src, tgt, tabIds, t) ==
    IF tabIds = <<>> THEN [ws |-> ws, threw |-> FALSE]
    ELSE LET tabId == Head(tabIds)
             p     == findTabRecursive(ws[src].main, tabId)
         IN  IF p = <<>> THEN [ws |-> ws, threw |-> TRUE]
             ELSE IF p = NotFound
             THEN copyLoopOff(ws, src, tgt, Tail(tabIds), t)
             ELSE LET tabToCopy == NodeAt(ws[src].main, p)
                      ws1 == [ws EXCEPT ![tgt].main =
                                 addTabToWorkspaceOff(@, tabToCopy, t)]
                  IN  copyLoopOff(ws1, src, tgt, Tail(tabIds), t)

\* plugin moveTabsBetweenWorkspaces, lines 276-296: three passes.
RECURSIVE tabsToMove(_, _)
tabsToMove(main, tabIds) ==
    IF tabIds = <<>> THEN <<>>
    ELSE LET p == findTabInNode(main, Head(tabIds))
         IN  (IF p = NotFound THEN <<>> ELSE <<NodeAt(main, p)>>)
             \o tabsToMove(main, Tail(tabIds))

RECURSIVE removeAll(_, _)
removeAll(main, tabs) ==
    IF tabs = <<>> THEN main
    ELSE removeAll(removeTabFromWorkspace(main, Head(tabs).id).main, Tail(tabs))

RECURSIVE addAllPlug(_, _, _)
addAllPlug(main, tabs, t) ==
    IF tabs = <<>> THEN main
    ELSE addAllPlug(addTabToWorkspacePlug(main, Head(tabs), t), Tail(tabs), t)

\* A move that also looks for the requested ids in the left sidebar of the
\* source and detaches them there.
moveTabsPlugAllRoots(ws, src, tgt, tabIds, t) ==
    LET found == tabsToMove(ws[src].main, tabIds)
        ws1   == [ws EXCEPT ![src].main = removeAll(@, found),
                            ![src].left = removeAll(@, tabsToMove(ws[src].left, tabIds))]
    IN  [ws1 EXCEPT ![tgt].main = addAllPlug(@, found, t)]

moveTabsPlug(ws, src, tgt, tabIds, t) ==
    LET found == tabsToMove(ws[src].main, tabIds)
        ws1   == [ws EXCEPT ![src].main = removeAll(@, found)]
    IN  [ws1 EXCEPT ![tgt].main = addAllPlug(@, found, t)]

\* The later revision of the plugin's moveTabsBetweenWorkspaces (the copy of
\* WorkspaceManager.ts with the Logger): the tabs found are added to the
\* target first and removed from the source afterwards.
moveTabsAddFirst(ws, src, tgt, tabIds, t) ==
    LET found == tabsToMove(ws[src].main, tabIds)
        ws1   == [ws EXCEPT ![tgt].main = addAllPlug(@, found, t)]
    IN  [ws1 EXCEPT ![src].main = removeAll(@, found)]

\* plugin deleteTabsFromWorkspace, lines 330-336: new main and tabsDeleted.
RECURSIVE deleteLoopPlug(_, _)
deleteLoopPlug(main, tabIds) ==
    IF tabIds = <<>> THEN [main |-> main, tabsDeleted |-> 0]
    ELSE LET r    == removeTabFromWorkspace(main, Head(tabIds))
             rest == deleteLoopPlug(r.main, Tail(tabIds))
         IN  [main |-> rest.main,
              tabsDeleted |-> rest.tabsDeleted + (IF r.found THEN 1 ELSE 0)]


\* ------------------------------------------------------------------------
\* Storage and serialization
\* ------------------------------------------------------------------------

\* The bytes of a file: absent, unparseable (a truncated or partial write),
\* or a JSON text, which is a document in a given formatting.
EmptyLayouts == [n \in {} |-> 0]

EmptyDoc == [workspaces |-> EmptyLayouts, active |-> ""]

Absent == [kind |-> "absent", fmt |-> "", doc |-> EmptyDoc]

Garbage == [kind |-> "garbage", fmt |-> "", doc |-> EmptyDoc]

Json(fmt, doc) == [kind |-> "json", fmt |-> fmt, doc |-> doc]

\* JSON.stringify(workspacesData, null, 2)
Stringify(doc) == Json("indent2", doc)

\* JSON.parse succeeds on JSON text only
Parseable(content) == content.kind = "json"

\* getWorkspaces: the parsed document, or the empty default when the read
\* or the parse fails
getWorkspaces(content, readOk) ==
    IF readOk /\ content.kind # "absent" /\ Parseable(content)
    THEN content.doc ELSE EmptyDoc

\* Backups are named workspaces-backup-<timestamp>.json; the store maps a
\* timestamp to the bytes of the backup of that name.
Timestamps == 1..MaxClock

NoBackups == [ts \in Timestamps |-> Absent]

Existing(b) == {ts \in DOMAIN b : b[ts].kind # "absent"}

\* position of a backup in the list sorted newest first (0 = newest)
Rank(b, ts) == Cardinality({u \in Existing(b) : u > ts})

\* settings.maxBackups || 10
EffectiveMaxBackups(setting) == IF setting = 0 THEN DefaultMaxBackups ELSE setting

\* pruneOldBackups: filesToRemove = sorted.slice(maxBackups); the first j of
\* them are removed (j < their number when a remove call fails).
filesToRemove(b, keep) == {ts \in Existing(b) : Rank(b, ts) >= keep}

pruneOldBackups(b, keep, j) ==
    [ts \in DOMAIN b |->
        IF ts \in Existing(b) /\ Rank(b, ts) >= keep /\ Rank(b, ts) < keep + j
        THEN Absent ELSE b[ts]]

\* A backup that stores the document serialized again instead of the
\* bytes read from workspaces.json.
createBackupReserialized(b, t, content) == [b EXCEPT ![t] = Stringify(content.doc)]

\* createBackup: the bytes read from workspaces.json are written, as they
\* are, to the backup named after the time t
createBackup(b, t, content) == [b EXCEPT ![t] = content]

\* transactionBackupPath: Null (null), NoBackup ('' in the offline manager)
\* or the timestamp naming the backup.
Null == -1

NoBackup == 0

\* ------------------------------------------------------------------------
\* Initial documents and requests
\* ------------------------------------------------------------------------
\* The auxiliary roots of a layout. The left sidebar holds a note (a leaf
\* with a file) whose id "z" is the id of no node of a main tree.
LeftSidebar == Split("l", <<Tabs("lt", <<Leaf("z", "pinned.md")>>)>>)

RightSidebar == Split("r", <<Tabs("rt", <<Leaf("o", "")>>)>>)

Layout(main) ==
    [main |-> main, left |-> LeftSidebar, right |-> RightSidebar, mtime |-> 0]

\* Shapes of main. Ids are unique within a layout, not across layouts.
TwoTabs == Split("m", <<Tabs("t", <<Leaf("x", "f1.md"), Leaf("y", "f2.md")>>)>>)

RootTab == Leaf("x", "f1.md")

TabBesideGroup ==
    Split("m", <<Leaf("x", "f1.md"), Tabs("t", <<Leaf("e", ""), Leaf("y", "f2.md")>>)>>)

EmptyGroup == Split("n", <<Tabs("u", <<>>)>>)

BareLeaf == Leaf("b", "f3.md")

EmptySplit == Split("n", <<>>)

GroupWithX == Split("n", <<Tabs("u", <<Leaf("x", "f1.md")>>)>>)

SplitNoChildren ==
    [id |-> "n", type |-> "split", hasKids |-> FALSE, kids |-> <<>>, file |-> ""]

ShapePairs ==
    { <<TwoTabs, EmptyGroup>>, <<TwoTabs, BareLeaf>>, <<TwoTabs, EmptySplit>>,
      <<TwoTabs, TabsNoChildren("u")>>, <<TwoTabs, GroupWithX>>,
      <<TwoTabs, SplitNoChildren>>,
      <<RootTab, EmptyGroup>>, <<RootTab, BareLeaf>>,
      <<TabBesideGroup, EmptyGroup>>, <<TabBesideGroup, EmptySplit>> }

InitialDocs ==
    { [workspaces |-> [n \in {"A", "B"} |->
                          IF n = "A" THEN Layout(p[1]) ELSE Layout(p[2])],
       active |-> "A"] : p \in ShapePairs }

\* Source, target and tabIds of the requests. "C" names a layout that no
\* document has; "z" is the id of no node of a main tree.
Transfers ==
    { <<p[1], p[2], l>> :
        p \in {<<"A", "B">>, <<"A", "A">>},
        l \in {<<"x">>, <<"z">>, <<"x", "y">>, <<"x", "x">>, <<"z", "x">>} }
    \cup { <<"B", "A", <<"x">>>>, <<"A", "C", <<"x">>>>, <<"C", "B", <<"x">>>> }

Kinds(i) == IF i = "offline" THEN {"move", "copy"} ELSE {"move", "delete"}

Requests(i) ==
    { [kind |-> k, src |-> r[1], tgt |-> IF k = "delete" THEN r[1] ELSE r[2],
       ids |-> r[3]] : k \in Kinds(i), r \in Transfers }

NoRequest == [kind |-> "none", src |-> "", tgt |-> "", ids |-> <<>>]

RetentionSettings == {0, 1}


\* ------------------------------------------------------------------------
\* State
\* ------------------------------------------------------------------------
VARIABLES
    impl,                   \* which manager runs: "offline" or "plugin"
    maxBackups,             \* plugin.settings.maxBackups (0 = unset)
    file,                   \* bytes of .obsidian/workspaces.json
    tmp,                    \* bytes of workspaces.json.tmp
    bak,                    \* bytes of workspaces.json.bak (plugin)
    backups,                \* the backup folder
    now,                    \* the clock, in milliseconds
    nameReused,             \* some backup was written under a name already taken
    transactionBackupPath,  \* the manager's field of that name
    pc,                     \* position of the running call
    op,                     \* the request being served
    wdata,                  \* argument `data` of writeAtomically (a local of the call)
    wctx,                   \* caller of writeAtomically: "save" or "rollback"
    err,                    \* exception in flight: "none", "error", "cleanup", "fatal"
    pre,                    \* bytes of workspaces.json when the call started
    first,                  \* bytes of workspaces.json when the first call started
    result,                 \* outcome of the last call
    rb,                     \* progress of rollbackTransaction in this call
    began,                  \* beginTransaction has completed in this call
    failedAt,               \* step of this call that raised the first failure
    calls,                  \* number of calls started
    okCalls,                \* number of calls that returned true
    faults,                 \* number of storage failures so far
    reqs,                   \* server: the state of each HTTP request being handled
    isRunning,              \* server: Obsidian is running (what getObsidianStatus reports)
    navArg,                 \* navigator: the layout passed to the method called
    navOut,                 \* navigator: what the method returned
    navOp,                  \* navigator: the method called and its tabId argument
    tmpChecked,             \* the temp file was read back and parsed since its last write
    instance,               \* the Workspaces core plugin: enabled, workspaces, the app's layout
    renaming,               \* the running renameWorkspace call
    folder                  \* the files of the backup folder, as adapter.list returns them

vars == <<impl, maxBackups, file, tmp, bak, backups, now, nameReused,
          transactionBackupPath,
          pc, op, wdata, wctx, err, pre, first, result, rb, began, failedAt, calls,
          okCalls, faults, reqs, isRunning, navArg, navOut, navOp, tmpChecked,
          instance, renaming, folder>>

settingsVars == <<impl, maxBackups>>

diskVars == <<file, tmp, bak, backups>>

callVars == <<op, pre, first, calls>>

clockVars == <<now, nameReused>>

serverVars == <<reqs, isRunning>>

appVars == <<instance, renaming, folder>>

navVars == <<navArg, navOut, navOp>>

NoCall == [name |-> "none", tabId |-> ""]

\* The Workspaces core plugin as the first manager sees it, and no rename
\* call running
NoInstance == [enabled |-> FALSE, workspaces |-> EmptyLayouts, layout |-> Layout(EmptySplit)]

NoRenaming == [pc |-> "idle", oldName |-> "", newName |-> "", before |-> EmptyLayouts]

\* The handlers of the server (one per HTTP request)
Requesters == 1..MaxRequests

IdleRequest ==
    [pc |-> "idle", op |-> [kind |-> "none", src |-> "", tgt |-> "", ids |-> <<>>],
     path |-> Null, data |-> Absent, ctx |-> "none", err |-> "none",
     result |-> "none"]

Init ==
    /\ impl \in {"offline", "plugin"}
    /\ maxBackups \in (IF impl = "plugin" THEN RetentionSettings ELSE {0})
    /\ file \in {Json("original", d) : d \in InitialDocs} \cup {Absent}
    /\ tmp = Absent
    /\ bak = Absent
    /\ backups = NoBackups
    /\ now = 1
    /\ nameReused = FALSE
    /\ transactionBackupPath = Null
    /\ pc = "idle"
    /\ op = NoRequest
    /\ wdata = Absent
    /\ wctx = "none"
    /\ err = "none"
    /\ pre = file
    /\ first = file
    /\ result = "none"
    /\ rb = "none"
    /\ began = FALSE
    /\ failedAt = "none"
    /\ calls = 0
    /\ okCalls = 0
    /\ faults = 0
    /\ reqs = [r \in Requesters |-> IdleRequest]
    /\ isRunning = FALSE
    /\ navArg = Layout(EmptySplit)
    /\ navOut = <<>>
    /\ navOp = NoCall
    /\ tmpChecked = FALSE
    /\ instance = NoInstance
    /\ renaming = NoRenaming
    /\ folder = <<>>

\* A storage call may fail while the budget of failures lasts.
Outcome(ok) ==
    /\ ~ok => faults < MaxFaults
    /\ faults' = IF ok THEN faults ELSE faults + 1

\* new Date() read by createBackup: the clock may have advanced
Times == {t \in {now, now + 1} : t <= MaxClock}

\* What a failed write leaves at its destination
AfterFailedWrite(old) == {old, Garbage}

\* A catch block that hands the failure to the caller without calling
\* rollbackTransaction.
OnErrorReport(ctx) == "report"

\* catch blocks of the operations: a failure inside the try block leads to
\* rollbackTransaction; a failure of the restore is thrown to the caller.
OnError(ctx) == IF ctx = "save" THEN "rollback" ELSE "report"

\* ------------------------------------------------------------------------
\* A top-level call: move, copy or delete. The behaviours explored are one
\* request and its re-issues (the user retrying the same transfer).
\* ------------------------------------------------------------------------
Call ==
    /\ pc = "idle"
    /\ calls < MaxCalls
    /\ \E r \in Requests(impl) :
          /\ calls > 0 => r = op
          /\ op' = r
    /\ pre' = file
    /\ first' = IF calls = 0 THEN file ELSE first
    /\ calls' = calls + 1
    /\ result' = "none"
    /\ rb' = "none"
    /\ began' = FALSE
    /\ failedAt' = "none"
    /\ err' = "none"
    /\ pc' = "begin"
    /\ tmpChecked' = FALSE
    /\ UNCHANGED <<settingsVars, serverVars, navVars, appVars, diskVars, clockVars, transactionBackupPath, wdata, wctx,
                   okCalls, faults>>

\* ------------------------------------------------------------------------
\* Offline manager
\* ------------------------------------------------------------------------

\* beginTransaction -> createBackup. mkdir failing throws out of the call
\* (beginTransaction is outside the try block); a failed read or write of
\* the backup is swallowed and yields ''.
BeginOff ==
    /\ pc = "begin"
    /\ impl = "offline"
    /\ \E t \in Times, outcome \in {"ok", "mkdir", "read", "write"} :
        /\ now' = t
        /\ nameReused' = (nameReused \/ (outcome = "ok" /\ backups[t].kind # "absent"))
        /\ Outcome(outcome = "ok" \/ (outcome = "read" /\ file.kind = "absent"))
        /\ outcome = "ok" => file.kind # "absent"
        /\ failedAt' = IF outcome = "mkdir" THEN "begin" ELSE failedAt
        /\ CASE outcome = "ok" ->
                  /\ backups' = createBackup(backups, t, file)
                  /\ transactionBackupPath' = t
                  /\ began' = TRUE
                  /\ pc' = "load"
                  /\ err' = err
             [] outcome = "mkdir" ->
                  /\ UNCHANGED <<backups, transactionBackupPath, began>>
                  /\ err' = "error"
                  /\ pc' = "report"
             [] outcome = "read" ->
                  /\ backups' = backups
                  /\ transactionBackupPath' = NoBackup
                  /\ began' = TRUE
                  /\ pc' = "load"
                  /\ err' = err
             [] outcome = "write" ->
                  /\ file.kind # "absent"
                  /\ \E c \in AfterFailedWrite(backups[t]) :
                        backups' = [backups EXCEPT ![t] = c]
                  /\ transactionBackupPath' = NoBackup
                  /\ began' = TRUE
                  /\ pc' = "load"
                  /\ err' = err
    /\ UNCHANGED <<settingsVars, serverVars, navVars, appVars, tmpChecked, file, tmp, bak, callVars, wdata, wctx, result, rb,
                   okCalls>>

\* A transfer that stamps the source layout also when copying.
TransferOffTouchingSource(doc, r, t) ==
    IF r.src \notin DOMAIN doc.workspaces \/ r.tgt \notin DOMAIN doc.workspaces
    THEN [doc |-> doc, threw |-> TRUE]
    ELSE LET l == IF r.kind = "move"
                  THEN moveLoopOff(doc.workspaces, r.src, r.tgt, r.ids, t)
                  ELSE copyLoopOff(doc.workspaces, r.src, r.tgt, r.ids, t)
             ws1 == [l.ws EXCEPT ![r.src].mtime = t]
             ws2 == [ws1 EXCEPT ![r.tgt].mtime = t]
         IN  [doc |-> [doc EXCEPT !.workspaces = ws2], threw |-> l.threw]

\* A transfer that goes on with the document as it is when a layout is
\* missing, where the code throws.
TransferOffLenient(doc, r, t) ==
    IF r.src \notin DOMAIN doc.workspaces \/ r.tgt \notin DOMAIN doc.workspaces
    THEN [doc |-> doc, threw |-> FALSE]
    ELSE LET l == IF r.kind = "move"
                  THEN moveLoopOff(doc.workspaces, r.src, r.tgt, r.ids, t)
                  ELSE copyLoopOff(doc.workspaces, r.src, r.tgt, r.ids, t)
             ws1 == IF r.kind = "move"
                    THEN [l.ws EXCEPT ![r.src].mtime = t]
                    ELSE l.ws
             ws2 == [ws1 EXCEPT ![r.tgt].mtime = t]
         IN  [doc |-> [doc EXCEPT !.workspaces = ws2], threw |-> l.threw]

\* The in-memory part of the offline move / copy: lookup of both layouts,
\* the loop over tabIds and the mtime updates.
TransferOff(doc, r, t) ==
    IF r.src \notin DOMAIN doc.workspaces \/ r.tgt \notin DOMAIN doc.workspaces
    THEN [doc |-> doc, threw |-> TRUE]
    ELSE LET l == IF r.kind = "move"
                  THEN moveLoopOff(doc.workspaces, r.src, r.tgt, r.ids, t)
                  ELSE copyLoopOff(doc.workspaces, r.src, r.tgt, r.ids, t)
             ws1 == IF r.kind = "move"
                    THEN [l.ws EXCEPT ![r.src].mtime = t]
                    ELSE l.ws
             ws2 == [ws1 EXCEPT ![r.tgt].mtime = t]
         IN  [doc |-> [doc EXCEPT !.workspaces = ws2], threw |-> l.threw]

LoadOff ==
    /\ pc = "load"
    /\ impl = "offline"
    /\ \E readOk \in BOOLEAN :
        /\ Outcome(readOk)
        /\ LET r == TransferOff(getWorkspaces(file, readOk), op, now)
           IN  IF r.threw
               THEN /\ err' = "error"
                    /\ failedAt' = "load"
                    /\ pc' = OnError("save")
                    /\ UNCHANGED <<wdata, wctx>>
               ELSE /\ wdata' = Stringify(r.doc)
                    /\ wctx' = "save"
                    /\ pc' = "w_tmp"
                    /\ UNCHANGED <<err, failedAt>>
    /\ UNCHANGED <<settingsVars, serverVars, navVars, appVars, tmpChecked, diskVars, clockVars, transactionBackupPath, callVars,
                   result, rb, began, okCalls>>

\* writeAtomically, step 1: fs.writeFile(tempPath, data)
WriteTmpOff ==
    /\ pc = "w_tmp"
    /\ impl = "offline"
    /\ \E ok \in BOOLEAN :
        /\ Outcome(ok)
        /\ IF ok
           THEN tmp' = wdata /\ pc' = "w_rename"
           ELSE tmp' \in AfterFailedWrite(tmp) /\ pc' = "w_cleanup"
        /\ failedAt' = IF ~ok /\ wctx = "save" THEN "w_tmp" ELSE failedAt
    /\ tmpChecked' = FALSE
    /\ UNCHANGED <<settingsVars, serverVars, navVars, appVars, file, bak, backups, clockVars, transactionBackupPath,
                   callVars, wdata, wctx, err, result, rb, began, okCalls>>

\* writeAtomically, step 2: fs.rename(tempPath, workspacesFilePath); on
\* success writeAtomically returns to saveWorkspaces or rollbackTransaction.
RenameOff ==
    /\ pc = "w_rename"
    /\ impl = "offline"
    /\ \E ok \in BOOLEAN :
        /\ Outcome(ok)
        /\ IF ok
           THEN /\ file' = tmp
                /\ tmp' = Absent
                /\ IF wctx = "save"
                   THEN pc' = "commit" /\ UNCHANGED <<rb, transactionBackupPath>>
                   ELSE /\ pc' = "report"
                        /\ rb' = "restored"
                        /\ transactionBackupPath' = Null
           ELSE /\ pc' = "w_cleanup"
                /\ UNCHANGED <<file, tmp, rb, transactionBackupPath>>
        /\ failedAt' = IF ~ok /\ wctx = "save" THEN "w_rename" ELSE failedAt
    /\ UNCHANGED <<settingsVars, serverVars, navVars, appVars, tmpChecked, bak, backups, clockVars, callVars, wdata, wctx, err,
                   result, began, okCalls>>

\* writeAtomically, catch block: unlink of the temp file (its failure is
\* ignored), then the error is thrown again. In rollbackTransaction the
\* error becomes the fatal one and the finally block clears the path.
\* The removal comes right after a failed storage call and may fail with
\* it: its failure is not charged to the budget of failures.
CleanupOff ==
    /\ pc = "w_cleanup"
    /\ impl = "offline"
    /\ \E ok \in BOOLEAN : tmp' = IF ok THEN Absent ELSE tmp
    /\ faults' = faults
    /\ pc' = OnError(wctx)
    /\ IF wctx = "save"
       THEN err' = "error" /\ UNCHANGED <<rb, transactionBackupPath>>
       ELSE err' = "fatal" /\ rb' = "failed" /\ transactionBackupPath' = Null
    /\ UNCHANGED <<failedAt, settingsVars, serverVars, navVars, appVars, tmpChecked, file, bak, backups, clockVars, callVars, wdata, wctx,
                   result, began, okCalls>>

\* rollbackTransaction up to the call of writeAtomically
RollbackOff ==
    /\ pc = "rollback"
    /\ impl = "offline"
    /\ IF transactionBackupPath \in {Null, NoBackup}
       THEN /\ rb' = "noop"
            /\ pc' = "report"
            /\ UNCHANGED <<transactionBackupPath, wdata, wctx, err, faults>>
       ELSE \E ok \in BOOLEAN :
            /\ Outcome(ok)
            /\ IF ok /\ backups[transactionBackupPath].kind # "absent"
               THEN /\ wdata' = backups[transactionBackupPath]
                    /\ wctx' = "rollback"
                    /\ rb' = "running"
                    /\ pc' = "w_tmp"
                    /\ UNCHANGED <<transactionBackupPath, err>>
               ELSE /\ rb' = "failed"
                    /\ err' = "fatal"
                    /\ transactionBackupPath' = Null
                    /\ pc' = "report"
                    /\ UNCHANGED <<wdata, wctx>>
    /\ UNCHANGED <<failedAt, settingsVars, serverVars, navVars, appVars, tmpChecked, diskVars, clockVars, callVars, result, began, okCalls>>

\* commitTransaction and `return true`
Commit ==
    /\ pc = "commit"
    /\ transactionBackupPath' = Null
    /\ result' = "ok"
    /\ okCalls' = okCalls + 1
    /\ pc' = "idle"
    /\ wdata' = Absent
    /\ wctx' = "none"
    /\ UNCHANGED <<failedAt, settingsVars, serverVars, navVars, appVars, tmpChecked, diskVars, clockVars, callVars, err, rb, began, faults>>

\* A delivery that hands a failed restore to the caller as an ordinary
\* failure of the operation.
ReportSwallowing ==
    /\ pc = "report"
    /\ result' = IF impl = "offline" THEN "threw" ELSE "false"
    /\ pc' = "idle"
    /\ wdata' = Absent
    /\ wctx' = "none"
    /\ UNCHANGED <<failedAt, settingsVars, serverVars, navVars, appVars, tmpChecked, diskVars, clockVars, transactionBackupPath, callVars,
                   err, rb, began, okCalls, faults>>

\* The failure reaches the caller: the offline manager throws it again, the
\* plugin returns false; a failed restore is thrown by both.
Report ==
    /\ pc = "report"
    /\ result' = IF err = "fatal" THEN "fatal"
                 ELSE IF impl = "offline" THEN "threw" ELSE "false"
    /\ pc' = "idle"
    /\ wdata' = Absent
    /\ wctx' = "none"
    /\ UNCHANGED <<failedAt, settingsVars, serverVars, navVars, appVars, tmpChecked, diskVars, clockVars, transactionBackupPath, callVars,
                   err, rb, began, okCalls, faults>>


\* ------------------------------------------------------------------------
\* Plugin manager
\* ------------------------------------------------------------------------

\* A pruning whose failure is thrown to the caller of createBackup.
AfterPruneThrowing(pruned, next) == IF pruned THEN next ELSE "rollback"

\* pruneOldBackups, catch block: a failure of adapter.list or of a remove
\* call is logged and createBackup goes on to `return backupName`.
AfterPrune(pruned, next) == next

\* createBackup, called by beginTransaction (pc = "begin") and again by
\* saveWorkspaces (pc = "save"): ensureFolder, read of workspaces.json, write
\* of the backup, pruneOldBackups. Every failure but one of pruning is thrown.
CreateBackupPlug ==
    /\ pc \in {"begin", "save"}
    /\ impl = "plugin"
    /\ \E t \in Times, outcome \in {"ok", "read", "write"} :
        /\ now' = t
        /\ nameReused' = (nameReused \/ (outcome = "ok" /\ backups[t].kind # "absent"))
        /\ CASE outcome = "ok" ->
                  /\ file.kind # "absent"
                  /\ LET b1   == createBackup(backups, t, file)
                         keep == EffectiveMaxBackups(maxBackups)
                         n    == Cardinality(filesToRemove(b1, keep))
                     IN  \E j \in 0..n, listOk \in BOOLEAN :
                            /\ ~listOk => j = 0
                            /\ Outcome(listOk /\ j = n)
                            /\ backups' = pruneOldBackups(b1, keep, j)
                            /\ pc' = AfterPrune(listOk /\ j = n,
                                                IF pc = "begin" THEN "load" ELSE "w_tmp")
                  /\ IF pc = "begin"
                     THEN /\ transactionBackupPath' = t
                          /\ began' = TRUE
                     ELSE UNCHANGED <<transactionBackupPath, began>>
                  /\ UNCHANGED <<err, failedAt>>
             [] outcome = "read" ->
                  /\ Outcome(file.kind = "absent")
                  /\ err' = "error"
                  /\ failedAt' = IF pc = "begin" THEN "begin" ELSE "backup"
                  /\ pc' = OnError("save")
                  /\ UNCHANGED <<backups, transactionBackupPath, began>>
             [] outcome = "write" ->
                  /\ file.kind # "absent"
                  /\ Outcome(FALSE)
                  /\ \E c \in AfterFailedWrite(backups[t]) :
                        backups' = [backups EXCEPT ![t] = c]
                  /\ err' = "error"
                  /\ failedAt' = IF pc = "begin" THEN "begin" ELSE "backup"
                  /\ pc' = OnError("save")
                  /\ UNCHANGED <<transactionBackupPath, began>>
    /\ UNCHANGED <<settingsVars, serverVars, navVars, appVars, tmpChecked, file, tmp, bak, callVars, wdata, wctx, result, rb,
                   okCalls>>

\* A transfer whose delete stamps and saves the layout also when no tab
\* was removed.
TransferPlugAlwaysSaving(doc, r, t) ==
    IF r.src \notin DOMAIN doc.workspaces \/ r.tgt \notin DOMAIN doc.workspaces
    THEN [doc |-> doc, threw |-> TRUE, save |-> FALSE]
    ELSE IF r.kind = "move"
    THEN LET ws1 == moveTabsPlug(doc.workspaces, r.src, r.tgt, r.ids, t)
             ws2 == [ws1 EXCEPT ![r.src].mtime = t]
             ws3 == [ws2 EXCEPT ![r.tgt].mtime = t]
         IN  [doc |-> [doc EXCEPT !.workspaces = ws3], threw |-> FALSE, save |-> TRUE]
    ELSE LET d == deleteLoopPlug(doc.workspaces[r.src].main, r.ids)
         IN  [doc |-> [doc EXCEPT !.workspaces[r.src].main = d.main,
                                  !.workspaces[r.src].mtime = t],
              threw |-> FALSE, save |-> TRUE]

\* The in-memory part of the plugin move / delete. `save` tells whether
\* saveWorkspaces is called (delete skips it when nothing was removed).
TransferPlug(doc, r, t) ==
    IF r.src \notin DOMAIN doc.workspaces \/ r.tgt \notin DOMAIN doc.workspaces
    THEN [doc |-> doc, threw |-> TRUE, save |-> FALSE]
    ELSE IF r.kind = "move"
    THEN LET ws1 == moveTabsPlug(doc.workspaces, r.src, r.tgt, r.ids, t)
             ws2 == [ws1 EXCEPT ![r.src].mtime = t]
             ws3 == [ws2 EXCEPT ![r.tgt].mtime = t]
         IN  [doc |-> [doc EXCEPT !.workspaces = ws3], threw |-> FALSE, save |-> TRUE]
    ELSE LET d == deleteLoopPlug(doc.workspaces[r.src].main, r.ids)
         IN  IF d.tabsDeleted > 0
             THEN [doc |-> [doc EXCEPT !.workspaces[r.src].main = d.main,
                                      !.workspaces[r.src].mtime = t],
                   threw |-> FALSE, save |-> TRUE]
             ELSE [doc |-> doc, threw |-> FALSE, save |-> FALSE]

LoadPlug ==
    /\ pc = "load"
    /\ impl = "plugin"
    /\ \E readOk \in BOOLEAN :
        /\ Outcome(readOk)
        /\ LET r == TransferPlug(getWorkspaces(file, readOk), op, now)
           IN  IF r.threw
               THEN /\ err' = "error"
                    /\ failedAt' = "load"
                    /\ pc' = OnError("save")
                    /\ UNCHANGED <<wdata, wctx>>
               ELSE /\ wdata' = Stringify(r.doc)
                    /\ wctx' = "save"
                    /\ pc' = IF r.save THEN "save" ELSE "commit"
                    /\ UNCHANGED <<err, failedAt>>
    /\ UNCHANGED <<settingsVars, serverVars, navVars, appVars, tmpChecked, diskVars, clockVars, transactionBackupPath, callVars,
                   result, rb, began, okCalls>>

\* writeAtomically: adapter.write(tempPath, data)
WriteTmpPlug ==
    /\ pc = "w_tmp"
    /\ impl = "plugin"
    /\ \E ok \in BOOLEAN :
        /\ Outcome(ok)
        /\ IF ok
           THEN tmp' = wdata /\ pc' = "w_validate"
           ELSE tmp' \in AfterFailedWrite(tmp) /\ pc' = "w_cleanup"
        /\ failedAt' = IF ok THEN failedAt ELSE "w_tmp"
    /\ tmpChecked' = FALSE
    /\ UNCHANGED <<settingsVars, serverVars, navVars, appVars, file, bak, backups, clockVars, transactionBackupPath,
                   callVars, wdata, wctx, err, result, rb, began, okCalls>>

\* writeAtomically: read the temp file back and validateData
ValidatePlug ==
    /\ pc = "w_validate"
    /\ impl = "plugin"
    /\ \E ok \in BOOLEAN :
        /\ Outcome(ok)
        /\ pc' = IF ok /\ Parseable(tmp) THEN "w_bak" ELSE "w_cleanup"
        /\ failedAt' = IF ok /\ Parseable(tmp) THEN failedAt ELSE "w_validate"
        /\ tmpChecked' = (ok /\ Parseable(tmp))
    /\ UNCHANGED <<settingsVars, serverVars, navVars, appVars, diskVars, clockVars, transactionBackupPath, callVars,
                   wdata, wctx, err, result, rb, began, okCalls>>

\* writeAtomically: copy of the target to workspaces.json.bak if it exists
BakPlug ==
    /\ pc = "w_bak"
    /\ impl = "plugin"
    /\ IF file.kind = "absent"
       THEN pc' = "w_remove" /\ UNCHANGED <<bak, faults, failedAt>>
       ELSE \E outcome \in {"ok", "read", "write"} :
            /\ Outcome(outcome = "ok")
            /\ failedAt' = IF outcome = "ok" THEN failedAt ELSE "w_bak"
            /\ CASE outcome = "ok"    -> bak' = file /\ pc' = "w_remove"
                 [] outcome = "read"  -> bak' = bak /\ pc' = "w_cleanup"
                 [] outcome = "write" -> bak' \in AfterFailedWrite(bak) /\ pc' = "w_cleanup"
    /\ UNCHANGED <<settingsVars, serverVars, navVars, appVars, tmpChecked, file, tmp, backups, clockVars, transactionBackupPath,
                   callVars, wdata, wctx, err, result, rb, began, okCalls>>

\* writeAtomically: the target is removed if it exists
RemovePlug ==
    /\ pc = "w_remove"
    /\ impl = "plugin"
    /\ IF file.kind = "absent"
       THEN pc' = "w_rename" /\ UNCHANGED <<file, faults, failedAt>>
       ELSE \E ok \in BOOLEAN :
            /\ Outcome(ok)
            /\ failedAt' = IF ok THEN failedAt ELSE "w_remove"
            /\ IF ok
               THEN file' = Absent /\ pc' = "w_rename"
               ELSE file' = file /\ pc' = "w_cleanup"
    /\ UNCHANGED <<settingsVars, serverVars, navVars, appVars, tmpChecked, tmp, bak, backups, clockVars, transactionBackupPath,
                   callVars, wdata, wctx, err, result, rb, began, okCalls>>

\* writeAtomically: adapter.rename(tempPath, path)
RenamePlug ==
    /\ pc = "w_rename"
    /\ impl = "plugin"
    /\ \E ok \in BOOLEAN :
        /\ Outcome(ok)
        /\ IF ok
           THEN file' = tmp /\ tmp' = Absent /\ pc' = "commit"
           ELSE UNCHANGED <<file, tmp>> /\ pc' = "w_cleanup"
        /\ failedAt' = IF ok THEN failedAt ELSE "w_rename"
    /\ UNCHANGED <<settingsVars, serverVars, navVars, appVars, tmpChecked, bak, backups, clockVars, transactionBackupPath,
                   callVars, wdata, wctx, err, result, rb, began, okCalls>>

\* writeAtomically, catch block: the temp file is removed if it exists, and
\* an error is thrown: the original one ("error"), or the one of the remove
\* call ("cleanup"), which is awaited inside the catch block with no try of
\* its own. As in the offline manager the failure of the removal is not
\* charged to the budget.
CleanupPlug ==
    /\ pc = "w_cleanup"
    /\ impl = "plugin"
    /\ IF tmp.kind = "absent"
       THEN tmp' = tmp /\ err' = "error"
       ELSE \E ok \in BOOLEAN :
            /\ tmp' = IF ok THEN Absent ELSE tmp
            /\ err' = IF ok THEN "error" ELSE "cleanup"
    /\ faults' = faults
    /\ pc' = OnError(wctx)
    /\ UNCHANGED <<failedAt, settingsVars, serverVars, navVars, appVars, tmpChecked, file, bak, backups, clockVars, transactionBackupPath,
                   callVars, wdata, wctx, result, rb, began, okCalls>>

\* rollbackTransaction: the backup is read and written straight over
\* workspaces.json; the path is cleared only when both succeed.
RollbackPlug ==
    /\ pc = "rollback"
    /\ impl = "plugin"
    /\ pc' = "report"
    /\ IF transactionBackupPath = Null
       THEN /\ rb' = "noop"
            /\ UNCHANGED <<file, transactionBackupPath, err, faults>>
       ELSE \E outcome \in {"ok", "read", "write"} :
            /\ Outcome(outcome = "ok" \/
                       (outcome = "read" /\ backups[transactionBackupPath].kind = "absent"))
            /\ outcome # "read" => backups[transactionBackupPath].kind # "absent"
            /\ CASE outcome = "ok" ->
                      /\ file' = backups[transactionBackupPath]
                      /\ transactionBackupPath' = Null
                      /\ rb' = "restored"
                      /\ err' = err
                 [] outcome = "read" ->
                      /\ rb' = "failed"
                      /\ err' = "fatal"
                      /\ UNCHANGED <<file, transactionBackupPath>>
                 [] outcome = "write" ->
                      /\ file' \in AfterFailedWrite(file)
                      /\ rb' = "failed"
                      /\ err' = "fatal"
                      /\ UNCHANGED transactionBackupPath
    /\ UNCHANGED <<failedAt, settingsVars, serverVars, navVars, appVars, tmpChecked, tmp, bak, backups, clockVars, callVars, wdata, wctx,
                   result, began, okCalls>>

\* ------------------------------------------------------------------------
\* Specification
\* ------------------------------------------------------------------------
Next ==
    \/ Call
    \/ BeginOff
    \/ LoadOff
    \/ WriteTmpOff
    \/ RenameOff
    \/ CleanupOff
    \/ RollbackOff
    \/ CreateBackupPlug
    \/ LoadPlug
    \/ WriteTmpPlug
    \/ ValidatePlug
    \/ BakPlug
    \/ RemovePlug
    \/ RenamePlug
    \/ CleanupPlug
    \/ RollbackPlug
    \/ Commit
    \/ Report

Spec == Init /\ [][Next]_vars

\* A running call goes on: every storage call returns or fails and the
\* continuation of an await is always run. Every step of a call (every
\* action but Call) moves pc, and a call that has not ended always has a
\* step to take, so the fairness of the steps is stated on the move of pc.
Positions ==
    {"idle", "begin", "load", "save", "w_tmp", "w_validate", "w_bak",
     "w_remove", "w_rename", "w_cleanup", "rollback", "commit", "report"}

Advance == pc # "idle" /\ pc' \in Positions \ {pc}

FairSpec == Spec /\ WF_pc(Advance)

TypeOK ==
    /\ pc \in {"idle", "begin", "load", "save", "w_tmp", "w_validate", "w_bak",
               "w_remove", "w_rename", "w_cleanup", "rollback", "commit", "report"}
    /\ result \in {"none", "ok", "false", "threw", "fatal"}
    /\ transactionBackupPath \in {Null, NoBackup} \cup Timestamps
    /\ faults \in 0..MaxFaults
    /\ now \in Timestamps


\* ------------------------------------------------------------------------
\* The server of the offline manager (index.ts). Every POST request builds a
\* WorkspaceManager of its own on the vault path and awaits its move or
\* copy; at each await the event loop may run the handler of another
\* request. The steps below are the stretches of a handler between the
\* awaits on workspaces.json and its temp file. Storage does not fail by
\* itself here; a rename fails when the shared temp file is gone.
\* ------------------------------------------------------------------------
ServerDocs ==
    { [workspaces |-> [n \in {"A", "B"} |->
                          IF n = "A" THEN Layout(TwoTabs) ELSE Layout(p)],
       active |-> "A"] : p \in {EmptyGroup, EmptySplit} }

ServerRequests ==
    { [kind |-> "move", src |-> "A", tgt |-> "B", ids |-> <<"x">>],
      [kind |-> "copy", src |-> "A", tgt |-> "B", ids |-> <<"y">>],
      [kind |-> "move", src |-> "A", tgt |-> "C", ids |-> <<"x">>] }

managerVars ==
    <<impl, maxBackups, bak, transactionBackupPath, pc, op, wdata, wctx, err, pre,
      first, result, rb, began, failedAt, calls, okCalls, faults, nameReused,
      navArg, navOut, navOp, tmpChecked, instance, renaming, folder>>

InitServer ==
    /\ impl = "offline"
    /\ maxBackups = 0
    /\ file \in {Json("original", d) : d \in ServerDocs}
    /\ tmp = Absent
    /\ bak = Absent
    /\ backups = NoBackups
    /\ now = 1
    /\ nameReused = FALSE
    /\ transactionBackupPath = Null
    /\ pc = "idle"
    /\ op = NoRequest
    /\ wdata = Absent
    /\ wctx = "none"
    /\ err = "none"
    /\ pre = file
    /\ first = file
    /\ result = "none"
    /\ rb = "none"
    /\ began = FALSE
    /\ failedAt = "none"
    /\ calls = 0
    /\ okCalls = 0
    /\ faults = 0
    /\ reqs = [r \in Requesters |-> IdleRequest]
    /\ isRunning \in BOOLEAN
    /\ navArg = Layout(EmptySplit)
    /\ navOut = <<>>
    /\ navOp = NoCall
    /\ tmpChecked = FALSE
    /\ instance = NoInstance
    /\ renaming = NoRenaming
    /\ folder = <<>>

\* app.post('/api/workspaces/move' | '/copy'): the parameters are checked,
\* a manager is built and its operation is called. The status of Obsidian
\* is not asked for.
SrvReceive ==
    \E r \in Requesters, q \in ServerRequests :
        /\ reqs[r].pc = "idle"
        /\ reqs' = [reqs EXCEPT ![r] = [IdleRequest EXCEPT !.pc = "begin", !.op = q]]
        /\ UNCHANGED <<managerVars, file, tmp, backups, now, isRunning>>

\* beginTransaction -> createBackup of the request's manager
SrvBegin ==
    \E r \in Requesters, t \in Times :
        /\ reqs[r].pc = "begin"
        /\ now' = t
        /\ IF file.kind = "absent"
           THEN /\ backups' = backups
                /\ reqs' = [reqs EXCEPT ![r].pc = "load", ![r].path = NoBackup]
           ELSE /\ backups' = createBackup(backups, t, file)
                /\ reqs' = [reqs EXCEPT ![r].pc = "load", ![r].path = t]
        /\ UNCHANGED <<managerVars, file, tmp, isRunning>>

\* getWorkspaces, the lookup of the layouts, the loop over tabIds, the
\* mtime updates and JSON.stringify: after the read nothing is awaited
\* until the write of the temp file.
SrvLoad ==
    \E r \in Requesters :
        /\ reqs[r].pc = "load"
        /\ LET x == TransferOff(getWorkspaces(file, TRUE), reqs[r].op, now)
           IN  reqs' = IF x.threw
                       THEN [reqs EXCEPT ![r].pc = "rollback", ![r].err = "error"]
                       ELSE [reqs EXCEPT ![r].pc = "w_tmp", ![r].ctx = "save",
                                         ![r].data = Stringify(x.doc)]
        /\ UNCHANGED <<managerVars, file, tmp, backups, now, isRunning>>

\* writeAtomically: fs.writeFile(tempPath, data); all managers of a vault
\* use the same temp path.
SrvWriteTmp ==
    \E r \in Requesters :
        /\ reqs[r].pc = "w_tmp"
        /\ tmp' = reqs[r].data
        /\ reqs' = [reqs EXCEPT ![r].pc = "w_rename"]
        /\ UNCHANGED <<managerVars, file, backups, now, isRunning>>

\* writeAtomically: fs.rename(tempPath, workspacesFilePath); it fails when
\* the temp file has been renamed away by another request.
SrvRename ==
    \E r \in Requesters :
        /\ reqs[r].pc = "w_rename"
        /\ IF tmp.kind = "absent"
           THEN /\ reqs' = [reqs EXCEPT ![r].pc = "w_cleanup"]
                /\ UNCHANGED <<file, tmp>>
           ELSE /\ file' = tmp
                /\ tmp' = Absent
                /\ reqs' = IF reqs[r].ctx = "save"
                           THEN [reqs EXCEPT ![r].pc = "commit"]
                           ELSE [reqs EXCEPT ![r].pc = "report", ![r].path = Null]
        /\ UNCHANGED <<managerVars, backups, now, isRunning>>

\* writeAtomically, catch block: unlink of the temp file, errors ignored
SrvCleanup ==
    \E r \in Requesters :
        /\ reqs[r].pc = "w_cleanup"
        /\ tmp' = Absent
        /\ reqs' = IF reqs[r].ctx = "save"
                   THEN [reqs EXCEPT ![r].pc = "rollback", ![r].err = "error"]
                   ELSE [reqs EXCEPT ![r].pc = "report", ![r].err = "fatal",
                                     ![r].path = Null]
        /\ UNCHANGED <<managerVars, file, backups, now, isRunning>>

\* rollbackTransaction up to the call of writeAtomically
SrvRollback ==
    \E r \in Requesters :
        /\ reqs[r].pc = "rollback"
        /\ reqs' = IF reqs[r].path \in {Null, NoBackup}
                   THEN [reqs EXCEPT ![r].pc = "report"]
                   ELSE [reqs EXCEPT ![r].pc = "w_tmp", ![r].ctx = "rollback",
                                     ![r].data = backups[reqs[r].path]]
        /\ UNCHANGED <<managerVars, file, tmp, backups, now, isRunning>>

\* commitTransaction, `return true` and res.json({ success: true })
SrvCommit ==
    \E r \in Requesters :
        /\ reqs[r].pc = "commit"
        /\ reqs' = [reqs EXCEPT ![r].pc = "done", ![r].path = Null,
                                ![r].result = "ok"]
        /\ UNCHANGED <<managerVars, file, tmp, backups, now, isRunning>>

\* The error thrown by the operation reaches asyncHandler's catch(next)
SrvReport ==
    \E r \in Requesters :
        /\ reqs[r].pc = "report"
        /\ reqs' = [reqs EXCEPT ![r].pc = "done",
                                ![r].result = IF reqs[r].err = "fatal"
                                              THEN "fatal" ELSE "threw"]
        /\ UNCHANGED <<managerVars, file, tmp, backups, now, isRunning>>

NextServer ==
    \/ SrvReceive
    \/ SrvBegin
    \/ SrvLoad
    \/ SrvWriteTmp
    \/ SrvRename
    \/ SrvCleanup
    \/ SrvRollback
    \/ SrvCommit
    \/ SrvReport

SpecServer == InitServer /\ [][NextServer]_vars


\* ------------------------------------------------------------------------
\* The tree navigator called on its own (by the modal and by the tests):
\* one call of a method on a layout read from workspaces.json.
\* ------------------------------------------------------------------------
SeqsUpTo(S, n) == UNION {[1..k -> S] : k \in 0..n}

\* Shapes of main up to depth 2 with at most MaxChildren children per node;
\* WithIds gives every node the id of its position, so ids are unique.
NavLeaves == {Leaf("", "note"), Leaf("", "")}

NavGroups ==
    NavLeaves \cup {TabsNoChildren("")}
              \cup {Tabs("", s) : s \in SeqsUpTo(NavLeaves, MaxChildren)}

NavShapes ==
    NavGroups \cup {Split("", s) : s \in SeqsUpTo(NavGroups, MaxChildren)}

RECURSIVE WithIds(_, _)
WithIds(node, id) ==
    [node EXCEPT !.id = id,
                 !.file = IF node.file = "" THEN "" ELSE id \o ".md",
                 !.kids = [i \in 1..Len(node.kids) |->
                              WithIds(node.kids[i], id \o "." \o ToString(i))]]

NavTrees == {WithIds(shape, "n") : shape \in NavShapes}

\* The positions of the nodes of a tree
PathsOf(node) ==
    LET RECURSIVE P(_)
        P(n) == {<<>>} \cup UNION {{<<i>> \o q : q \in P(n.kids[i])} :
                                      i \in 1..Len(n.kids)}
    IN  P(node)

\* What a move leaves in a target that already holds a node with the id of
\* the tab moved in (ids are unique within a layout, not across layouts)
NavTreesAfterMove ==
    UNION {{addTabToWorkspacePlug(tree, NodeAt(tree, p), 0) :
               p \in {q \in PathsOf(tree) :
                         q # <<>> /\ NodeAt(tree, q).type = "leaf"}} :
           tree \in NavTrees}

NavIds(tree) == {NodeAt(tree, p).id : p \in PathsOf(tree)} \cup {"none"}

InitNav ==
    /\ impl = "plugin"
    /\ maxBackups = 0
    /\ file = Absent
    /\ tmp = Absent
    /\ bak = Absent
    /\ backups = NoBackups
    /\ now = 1
    /\ nameReused = FALSE
    /\ transactionBackupPath = Null
    /\ pc = "idle"
    /\ op = NoRequest
    /\ wdata = Absent
    /\ wctx = "none"
    /\ err = "none"
    /\ pre = file
    /\ first = file
    /\ result = "none"
    /\ rb = "none"
    /\ began = FALSE
    /\ failedAt = "none"
    /\ calls = 0
    /\ okCalls = 0
    /\ faults = 0
    /\ reqs = [r \in Requesters |-> IdleRequest]
    /\ isRunning = FALSE
    /\ navArg \in {Layout(tree) : tree \in NavTrees \cup NavTreesAfterMove}
    /\ navOut = <<>>
    /\ navOp = NoCall
    /\ tmpChecked = FALSE
    /\ instance = NoInstance
    /\ renaming = NoRenaming
    /\ folder = <<>>

engineVars ==
    <<impl, maxBackups, file, tmp, bak, backups, now, nameReused,
      transactionBackupPath, pc, op, wdata, wctx, err, pre, first, result, rb,
      began, failedAt, calls, okCalls, faults, reqs, isRunning, tmpChecked,
      instance, renaming, folder>>

\* extractTabsFromWorkspace(workspace): the tabs are returned, no node is
\* assigned to.
NavExtract ==
    /\ navOp = NoCall
    /\ navOut' = extractTabsFromWorkspace(navArg)
    /\ navOp' = [name |-> "extract", tabId |-> ""]
    /\ UNCHANGED <<engineVars, navArg>>

\* plugin removeTabFromWorkspace(workspace, tabId): navOut is the main tree
\* after the call and the boolean returned.
NavRemove ==
    /\ navOp = NoCall
    /\ \E tabId \in NavIds(navArg.main) :
          /\ navOut' = removeTabFromWorkspace(navArg.main, tabId)
          /\ navOp' = [name |-> "remove", tabId |-> tabId]
    /\ UNCHANGED <<engineVars, navArg>>

\* The passes of the later revision's moveTabsBetweenWorkspaces between
\* getWorkspaces and saveWorkspaces, called with the same layout as source
\* and target: navOut is the main tree that is saved.
NavMoveWithin ==
    /\ navOp = NoCall
    /\ \E tabId \in NavIds(navArg.main) :
          /\ navOut' = moveTabsAddFirst([n \in {"A"} |-> navArg], "A", "A",
                                        <<tabId>>, now)["A"].main
          /\ navOp' = [name |-> "move", tabId |-> tabId]
    /\ UNCHANGED <<engineVars, navArg>>

NextNav ==
    \/ NavExtract
    \/ NavRemove
    \/ NavMoveWithin

SpecNav == InitNav /\ [][NextNav]_vars


\* ------------------------------------------------------------------------
\* The first WorkspaceManager of src/WorkspaceManager.ts works through the
\* Workspaces core plugin of Obsidian: loadWorkspace(name) makes the
\* layout saved under the name the layout of the app (nothing happens when
\* there is none), saveWorkspace(name) saves the layout of the app under
\* the name. One renameWorkspace call is followed through its awaits.
\* ------------------------------------------------------------------------
WorkspaceNames == {"A", "B", "C"}

InitRename ==
    /\ impl = "plugin"
    /\ maxBackups = 0
    /\ file = Absent
    /\ tmp = Absent
    /\ bak = Absent
    /\ backups = NoBackups
    /\ now = 1
    /\ nameReused = FALSE
    /\ transactionBackupPath = Null
    /\ pc = "idle"
    /\ op = NoRequest
    /\ wdata = Absent
    /\ wctx = "none"
    /\ err = "none"
    /\ pre = file
    /\ first = file
    /\ result = "none"
    /\ rb = "none"
    /\ began = FALSE
    /\ failedAt = "none"
    /\ calls = 0
    /\ okCalls = 0
    /\ faults = 0
    /\ reqs = [r \in Requesters |-> IdleRequest]
    /\ isRunning = FALSE
    /\ navArg = Layout(EmptySplit)
    /\ navOut = <<>>
    /\ navOp = NoCall
    /\ tmpChecked = FALSE
    /\ \E d \in InitialDocs, e \in BOOLEAN :
          instance = [enabled |-> e, workspaces |-> d.workspaces,
                      layout |-> d.workspaces[d.active]]
    /\ renaming = NoRenaming
    /\ folder = <<>>

otherVars ==
    <<impl, maxBackups, file, tmp, bak, backups, now, nameReused,
      transactionBackupPath, pc, op, wdata, wctx, err, pre, first, result, rb,
      began, failedAt, calls, okCalls, faults, reqs, isRunning, navArg, navOut,
      navOp, tmpChecked, folder>>

\* workspaces[name] = layout, for a name saved before or not
SavedUnder(workspaces, name, layout) ==
    [n \in DOMAIN workspaces \cup {name} |->
        IF n = name THEN layout ELSE workspaces[n]]

\* delete workspaces[name]
Deleted(workspaces, name) ==
    [n \in DOMAIN workspaces \ {name} |-> workspaces[n]]

\* renameWorkspace(oldName, newName) up to its first await
RenameCall ==
    /\ renaming.pc = "idle"
    /\ \E o \in WorkspaceNames, n \in WorkspaceNames :
          renaming' = [pc |-> IF instance.enabled THEN "load" ELSE "done",
                       oldName |-> o, newName |-> n,
                       before |-> instance.workspaces]
    /\ UNCHANGED <<otherVars, instance>>

\* await instance.loadWorkspace(oldName)
RenameLoad ==
    /\ renaming.pc = "load"
    /\ instance' = IF renaming.oldName \in DOMAIN instance.workspaces
                   THEN [instance EXCEPT !.layout = instance.workspaces[renaming.oldName]]
                   ELSE instance
    /\ renaming' = [renaming EXCEPT !.pc = "save"]
    /\ UNCHANGED otherVars

\* await instance.saveWorkspace(newName)
RenameSave ==
    /\ renaming.pc = "save"
    /\ instance' = [instance EXCEPT
                       !.workspaces = SavedUnder(@, renaming.newName, instance.layout)]
    /\ renaming' = [renaming EXCEPT !.pc = "delete"]
    /\ UNCHANGED otherVars

\* await this.deleteWorkspace(oldName): the workspace is deleted when it
\* exists, then the notices are shown and the call returns.
RenameDelete ==
    /\ renaming.pc = "delete"
    /\ instance' = IF renaming.oldName \in DOMAIN instance.workspaces
                   THEN [instance EXCEPT !.workspaces = Deleted(@, renaming.oldName)]
                   ELSE instance
    /\ renaming' = [renaming EXCEPT !.pc = "done"]
    /\ UNCHANGED otherVars

NextRename ==
    \/ RenameCall
    \/ RenameLoad
    \/ RenameSave
    \/ RenameDelete

SpecRename == InitRename /\ [][NextRename]_vars


\* ------------------------------------------------------------------------
\* pruneOldBackups on a backup folder that also holds files not written by
\* createBackup. A file is its name, the <timestamp> that the expression
\* /workspaces-backup-(.+)\.json$/ takes out of the name (0 stands for '',
\* the value used when the name does not match) and whether the name ends
\* with '.json'.
\* ------------------------------------------------------------------------
BackupFile(ts) ==
    [name |-> "workspaces-backup-" \o ToString(ts) \o ".json", stamp |-> ts, json |-> TRUE]

OtherFiles ==
    { [name |-> "notes.json", stamp |-> 0, json |-> TRUE],
      [name |-> "export.json", stamp |-> 0, json |-> TRUE],
      [name |-> "README.md", stamp |-> 0, json |-> FALSE] }

FolderFiles == {BackupFile(ts) : ts \in Timestamps} \cup OtherFiles

\* The listings of a folder: its files in any order, no file twice
Listings ==
    {s \in SeqsUpTo(FolderFiles, Cardinality(FolderFiles)) :
        \A i, j \in 1..Len(s) : i # j => s[i] # s[j]}

\* files.filter(file => file.endsWith('.json'))
RECURSIVE jsonFiles(_)
jsonFiles(s) ==
    IF s = <<>> THEN <<>>
    ELSE (IF Head(s).json THEN <<Head(s)>> ELSE <<>>) \o jsonFiles(Tail(s))

\* .sort((a, b) => timestampB.localeCompare(timestampA)): newest first, the
\* names without a timestamp last; the sort is stable
RECURSIVE insertByTimestamp(_, _)
insertByTimestamp(sorted, f) ==
    IF sorted = <<>> THEN <<f>>
    ELSE IF Head(sorted).stamp >= f.stamp
    THEN <<Head(sorted)>> \o insertByTimestamp(Tail(sorted), f)
    ELSE <<f>> \o sorted

RECURSIVE sortNewestFirst(_)
sortNewestFirst(s) ==
    IF s = <<>> THEN <<>>
    ELSE insertByTimestamp(sortNewestFirst(Front(s)), s[Len(s)])

backupFiles(files) == sortNewestFirst(jsonFiles(files))

\* backupFiles.slice(maxBackups) when backupFiles.length > maxBackups
sliceToRemove(files, keep) ==
    LET sorted == backupFiles(files)
    IN  IF Len(sorted) > keep THEN SubSeq(sorted, keep + 1, Len(sorted)) ELSE <<>>

\* The listing without the files of a sequence
RECURSIVE without(_, _)
without(s, removed) ==
    IF s = <<>> THEN <<>>
    ELSE (IF \E i \in 1..Len(removed) : removed[i] = Head(s) THEN <<>> ELSE <<Head(s)>>)
         \o without(Tail(s), removed)

InitPrune ==
    /\ impl = "plugin"
    /\ maxBackups \in {0, 1, 2}
    /\ file = Absent
    /\ tmp = Absent
    /\ bak = Absent
    /\ backups = NoBackups
    /\ now = 1
    /\ nameReused = FALSE
    /\ transactionBackupPath = Null
    /\ pc = "idle"
    /\ op = NoRequest
    /\ wdata = Absent
    /\ wctx = "none"
    /\ err = "none"
    /\ pre = file
    /\ first = file
    /\ result = "none"
    /\ rb = "none"
    /\ began = FALSE
    /\ failedAt = "none"
    /\ calls = 0
    /\ okCalls = 0
    /\ faults = 0
    /\ reqs = [r \in Requesters |-> IdleRequest]
    /\ isRunning = FALSE
    /\ navArg = Layout(EmptySplit)
    /\ navOut = <<>>
    /\ navOp = NoCall
    /\ tmpChecked = FALSE
    /\ instance = NoInstance
    /\ renaming = NoRenaming
    /\ folder \in Listings

\* pruneOldBackups: the files of the slice are removed one after the other;
\* a remove call that fails ends the loop (j files were removed by then)
\* and the failure is logged.
PruneFolder ==
    /\ LET toRemove == sliceToRemove(folder, EffectiveMaxBackups(maxBackups))
       IN  \E j \in 0..Len(toRemove) :
              folder' = without(folder, SubSeq(toRemove, 1, j))
    /\ UNCHANGED <<settingsVars, serverVars, navVars, diskVars, clockVars, callVars,
                   transactionBackupPath, pc, wdata, wctx, err, result, rb, began,
                   failedAt, okCalls, faults, tmpChecked, instance, renaming>>

NextPrune == PruneFolder

SpecPrune == InitPrune /\ [][NextPrune]_vars

\* ------------------------------------------------------------------------
\* One plugin manager serving call after call (the modal keeps its manager
\* for the life of the plugin). The budget of storage failures bounds the
\* failures within one call: the storage may fail again in a later call.
\* ------------------------------------------------------------------------
InitRetry ==
    /\ Init
    /\ impl = "plugin"
    /\ file \in {Json("original", d) : d \in ServerDocs}

\* Between two calls the storage is given a new budget of failures
StorageRecovers ==
    /\ pc = "idle"
    /\ calls > 0
    /\ faults > 0
    /\ faults' = 0
    /\ UNCHANGED <<settingsVars, serverVars, navVars, appVars, tmpChecked, diskVars,
                   clockVars, transactionBackupPath, callVars, wdata, wctx, err,
                   result, rb, began, failedAt, okCalls, pc>>

NextRetry ==
    \/ Call
    \/ CreateBackupPlug
    \/ LoadPlug
    \/ WriteTmpPlug
    \/ ValidatePlug
    \/ BakPlug
    \/ RemovePlug
    \/ RenamePlug
    \/ CleanupPlug
    \/ RollbackPlug
    \/ Commit
    \/ Report
    \/ StorageRecovers

SpecRetry == InitRetry /\ [][NextRetry]_vars


\* ------------------------------------------------------------------------
\* The operations run on a vault whose workspaces.json is missing or does
\* not parse. Only the steps that such a call takes are listed; that the
\* call never comes to another step is part of what is checked.
\* ------------------------------------------------------------------------
InitDamaged ==
    /\ impl \in {"offline", "plugin"}
    /\ maxBackups \in (IF impl = "plugin" THEN RetentionSettings ELSE {0})
    /\ file \in {Absent, Garbage}
    /\ tmp = Absent
    /\ bak = Absent
    /\ backups = NoBackups
    /\ now = 1
    /\ nameReused = FALSE
    /\ transactionBackupPath = Null
    /\ pc = "idle"
    /\ op = NoRequest
    /\ wdata = Absent
    /\ wctx = "none"
    /\ err = "none"
    /\ pre = file
    /\ first = file
    /\ result = "none"
    /\ rb = "none"
    /\ began = FALSE
    /\ failedAt = "none"
    /\ calls = 0
    /\ okCalls = 0
    /\ faults = 0
    /\ reqs = [r \in Requesters |-> IdleRequest]
    /\ isRunning = FALSE
    /\ navArg = Layout(EmptySplit)
    /\ navOut = <<>>
    /\ navOp = NoCall
    /\ tmpChecked = FALSE
    /\ instance = NoInstance
    /\ renaming = NoRenaming
    /\ folder = <<>>

NextDamaged ==
    \/ Call
    \/ BeginOff
    \/ LoadOff
    \/ WriteTmpOff
    \/ RenameOff
    \/ CleanupOff
    \/ RollbackOff
    \/ CreateBackupPlug
    \/ LoadPlug
    \/ RollbackPlug
    \/ Report

SpecDamaged == InitDamaged /\ [][NextDamaged]_vars


\* ------------------------------------------------------------------------
\* Properties
\* ------------------------------------------------------------------------
Done == pc = "idle" /\ calls > 0

PreWs == pre.doc.workspaces

PostWs == file.doc.workspaces

\* The request named two layouts of the document the call started from
LayoutsExisted ==
    /\ pre.kind = "json"
    /\ op.src \in DOMAIN PreWs
    /\ op.tgt \in DOMAIN PreWs

\* The call returned true, so workspaces.json holds the document it saved
Succeeded == Done /\ result = "ok" /\ LayoutsExisted /\ file.kind = "json"

Occurrences(tabs, id) == Cardinality({i \in 1..Len(tabs) : tabs[i].id = id})

IsTabOf(ws, name, id) == Occurrences(extractTabsFromWorkspace(ws[name]), id) > 0

FilePathOf(ws, name, id) ==
    LET tabs == extractTabsFromWorkspace(ws[name])
    IN  tabs[CHOOSE i \in 1..Len(tabs) : tabs[i].id = id].filePath

\* C1: a move of the offline manager on an existing, parseable
\* workspaces.json whose save fails in writeAtomically (at the temp write
\* or at the rename) ends by throwing and leaves the bytes of
\* workspaces.json as they were before the call.
C1_FailedMoveKeepsBytes ==
    (/\ impl = "offline"
     /\ Done
     /\ op.kind = "move"
     /\ pre.kind = "json"
     /\ failedAt \in {"w_tmp", "w_rename"})
    => (result \in {"threw", "fatal"} /\ file = pre)

C1_Witness ==
    /\ impl = "offline"
    /\ Done
    /\ op.kind = "move"
    /\ pre.kind = "json"
    /\ failedAt = "w_rename"
    /\ rb = "restored"
    /\ result = "threw"

\* C2: after a successful offline move of one tab id of A to a distinct
\* layout B, the id is no tab of A and is exactly one tab of B, whatever the
\* shape of B.main.
C2_MoveInvariant ==
    (/\ impl = "offline"
     /\ Succeeded
     /\ op.kind = "move"
     /\ op.src # op.tgt
     /\ Len(op.ids) = 1
     /\ IsTabOf(PreWs, op.src, op.ids[1]))
    => (/\ ~IsTabOf(PostWs, op.src, op.ids[1])
        /\ Occurrences(extractTabsFromWorkspace(PostWs[op.tgt]), op.ids[1]) = 1)

\* C3: after a successful offline copy of one tab id of A to B, the id is
\* still a tab of A and B has a tab with the same filePath under an id
\* different from the source tab's id.
C3_CopyInvariant ==
    (/\ impl = "offline"
     /\ Succeeded
     /\ op.kind = "copy"
     /\ op.src # op.tgt
     /\ Len(op.ids) = 1
     /\ IsTabOf(PreWs, op.src, op.ids[1]))
    => (/\ IsTabOf(PostWs, op.src, op.ids[1])
        /\ LET tabs == extractTabsFromWorkspace(PostWs[op.tgt])
           IN  \E i \in 1..Len(tabs) :
                  /\ tabs[i].filePath = FilePathOf(PreWs, op.src, op.ids[1])
                  /\ tabs[i].id # op.ids[1])

\* C4: after a successful plugin delete, no requested id is a tab of the
\* layout, and the number of tabs went down by exactly the number of
\* requested ids that were tabs of the layout.
RequestedTabs(ws, name, ids) ==
    {id \in {ids[i] : i \in 1..Len(ids)} : IsTabOf(ws, name, id)}

C4_DeleteInvariant ==
    (/\ impl = "plugin"
     /\ Succeeded
     /\ op.kind = "delete")
    => (/\ RequestedTabs(PostWs, op.src, op.ids) = {}
        /\ Len(extractTabsFromWorkspace(PostWs[op.src]))
             = Len(extractTabsFromWorkspace(PreWs[op.src]))
               - Cardinality(RequestedTabs(PreWs, op.src, op.ids)))

\* C5: at every step of writeAtomically before the rename has happened,
\* also after a step failed, workspaces.json holds the complete previous
\* document.
C5_TargetIntactBeforeRename ==
    (pc \in {"w_tmp", "w_validate", "w_bak", "w_remove", "w_rename", "w_cleanup"})
    => file = pre

\* C6: when a failure raised after beginTransaction is about to reach the
\* caller, rollbackTransaction has been invoked and has ended.
C6_RollbackBeforeReport ==
    (pc = "report" /\ began) => rb \in {"noop", "restored", "failed"}

C6_Witness ==
    /\ pc = "report"
    /\ began
    /\ failedAt \in {"load", "w_tmp", "w_rename", "w_validate"}
    /\ rb = "restored"

\* C7: between top-level calls no transaction is Active: the recovery point
\* of the manager is cleared, also when the restore itself failed.
C7_NoTransactionLeftActive ==
    pc = "idle" => transactionBackupPath \in {Null, NoBackup}

\* C8: with retention count 10 and an initially empty backup folder, after
\* N calls that all succeeded, storage never failing and every backup
\* written under a name of its own, the folder holds exactly min(N, 10)
\* backups.
C8_BackupRetention ==
    (/\ pc = "idle"
     /\ okCalls = calls
     /\ faults = 0
     /\ ~nameReused
     /\ EffectiveMaxBackups(maxBackups) = DefaultMaxBackups)
    => Cardinality(Existing(backups))
         = (IF calls < DefaultMaxBackups THEN calls ELSE DefaultMaxBackups)

\* C9: inserting a tab into a layout whose main is a bare leaf makes main a
\* split whose children are the original leaf and a new tabs node holding
\* the inserted tab.
C9_InsertionFallback ==
    (/\ Succeeded
     /\ op.kind = "move"
     /\ op.src # op.tgt
     /\ Len(op.ids) = 1
     /\ PreWs[op.tgt].main.type = "leaf"
     /\ findTabInWorkspace(PreWs[op.src], op.ids[1]) # NotFound)
    => LET old  == PreWs[op.tgt].main
           new  == PostWs[op.tgt].main
           tab  == NodeAt(PreWs[op.src].main,
                          findTabInWorkspace(PreWs[op.src], op.ids[1]))
       IN  /\ new.type = "split"
           /\ Len(new.kids) = 2
           /\ new.kids[1] = old
           /\ new.kids[2].type = "tabs"
           /\ new.kids[2].kids = <<tab>>

\* The ids of the request were tabs of the source when the first call
\* started
AllInSourceAtFirst ==
    /\ first.kind = "json"
    /\ op.src \in DOMAIN first.doc.workspaces
    /\ \A i \in 1..Len(op.ids) : IsTabOf(first.doc.workspaces, op.src, op.ids[i])

\* No id of the request is in the source when the running call started
NoneInSource ==
    \A i \in 1..Len(op.ids) :
        findTabRecursive(PreWs[op.src].main, op.ids[i]) = NotFound

\* The second run of a move between two layouts has ended; the first run
\* took the ids out of the source; storage did not fail.
Rerun ==
    /\ impl = "offline"
    /\ Done
    /\ calls >= 2
    /\ faults = 0
    /\ op.kind = "move"
    /\ op.src # op.tgt
    /\ LayoutsExisted
    /\ AllInSourceAtFirst
    /\ NoneInSource

\* C10 as stated: a move requested a second time, the first run having
\* moved its ids out of the source, succeeds, transfers nothing and leaves
\* the target layout, mtime included, unchanged.
C10_RerunLeavesTargetUnchanged ==
    Rerun => (/\ result = "ok"
              /\ file.kind = "json"
              /\ PostWs[op.src].main = PreWs[op.src].main
              /\ PostWs[op.tgt] = PreWs[op.tgt])

\* C10: a move requested a second time, the first run having moved its ids
\* out of the source, succeeds and transfers nothing: the trees of both
\* layouts are unchanged, and the mtime of both is the time of the second
\* run.
C10_RerunLeavesTreesUnchanged ==
    Rerun => (/\ result = "ok"
              /\ file.kind = "json"
              /\ PostWs[op.src].main = PreWs[op.src].main
              /\ PostWs[op.tgt].main = PreWs[op.tgt].main
              /\ PostWs[op.src].mtime = now
              /\ PostWs[op.tgt].mtime = now)

C10_Witness ==
    /\ Rerun
    /\ okCalls = 2
    /\ op.src = "A"
    /\ op.tgt = "B"
    /\ op.ids = <<"x">>
    /\ IsTabOf(PostWs, "B", "x")
    /\ PostWs["B"].mtime # PreWs["B"].mtime

\* C11: a move or copy that names a layout absent from the document fails,
\* the failure being raised by the lookup of the layouts (before any tab is
\* handled and before any save), and workspaces.json holds the same bytes
\* after the call as before.
LayoutMissing ==
    /\ Done
    /\ began
    /\ op.kind \in {"move", "copy"}
    /\ ~LayoutsExisted

C11_MissingLayoutFailsCleanly ==
    LayoutMissing => (/\ result \in {"threw", "false", "fatal"}
                      /\ failedAt = "load"
                      /\ file = pre)

\* C12: a move whose tabIds mix ids that are tabs of the source with ids
\* that are not, storage not failing, succeeds; every id that was a tab of
\* the source has left it and occurs once more in the target, every other
\* id occurs in both layouts as often as before, and the sizes of the two
\* tab lists changed by the number of ids that were present.
IdsOf(ids) == {ids[i] : i \in 1..Len(ids)}

PresentIds == {id \in IdsOf(op.ids) : IsTabOf(PreWs, op.src, id)}

AbsentIds == IdsOf(op.ids) \ PresentIds

TabsOf(ws, name) == extractTabsFromWorkspace(ws[name])

C12_MixedIdsMove ==
    (/\ Done
     /\ faults = 0
     /\ op.kind = "move"
     /\ op.src # op.tgt
     /\ LayoutsExisted
     /\ PresentIds # {}
     /\ AbsentIds # {})
    => (/\ result = "ok"
        /\ file.kind = "json"
        /\ \A id \in PresentIds :
              /\ Occurrences(TabsOf(PostWs, op.src), id) = 0
              /\ Occurrences(TabsOf(PostWs, op.tgt), id)
                    = Occurrences(TabsOf(PreWs, op.tgt), id) + 1
        /\ \A id \in AbsentIds :
              /\ Occurrences(TabsOf(PostWs, op.src), id) = 0
              /\ Occurrences(TabsOf(PostWs, op.tgt), id)
                    = Occurrences(TabsOf(PreWs, op.tgt), id)
        /\ Len(TabsOf(PostWs, op.src))
              = Len(TabsOf(PreWs, op.src)) - Cardinality(PresentIds)
        /\ Len(TabsOf(PostWs, op.tgt))
              = Len(TabsOf(PreWs, op.tgt)) + Cardinality(PresentIds))

\* C13: a call ends with the fatal outcome exactly when its restore from
\* the backup failed, so a failed transfer whose restore failed is told
\* apart from one that was rolled back.
C13_RestoreFailureIsDistinct ==
    Done => ((rb = "failed") <=> (result = "fatal"))

C13_Witness ==
    /\ Done
    /\ failedAt # "none"
    /\ rb = "failed"
    /\ result = "fatal"

\* C14: when workspaces.json does not exist at the start of a call and
\* storage does not fail, beginTransaction completes with the recovery
\* point set to the 'no backup' value, a rollback in that call restores
\* nothing, and workspaces.json stays absent.
C14_NoDocumentNoBackup ==
    (/\ calls > 0
     /\ pre.kind = "absent"
     /\ faults = 0
     /\ pc # "begin")
    => (/\ began
        /\ failedAt # "begin"
        /\ pc = "load" => transactionBackupPath = NoBackup
        /\ rb \in {"none", "noop"}
        /\ file = pre)

\* C15: in the offline manager, when a move or copy has just replaced an
\* existing workspaces.json with the new document, the backup taken by
\* beginTransaction in this call exists and holds the bytes the file had
\* before the call.
C15_BackupBeforeChange ==
    (/\ impl = "offline"
     /\ pre.kind = "json"
     /\ pc = "commit")
    => (/\ transactionBackupPath \in Timestamps
        /\ backups[transactionBackupPath] = pre)

\* C18: a successful move, copy or delete hands the caller the number of
\* tabs it transferred. The value handed back is the boolean true (the
\* server answers { success: true }).
Returned(res) == [success |-> res = "ok"]

Transferred ==
    IF op.kind = "delete"
    THEN Len(TabsOf(PreWs, op.src)) - Len(TabsOf(PostWs, op.src))
    ELSE Len(TabsOf(PostWs, op.tgt)) - Len(TabsOf(PreWs, op.tgt))

C18_CountReported ==
    (Succeeded /\ (op.kind = "delete" \/ op.src # op.tgt))
    => (/\ "count" \in DOMAIN Returned(result)
        /\ Returned(result).count = Transferred)

\* C19: a successful offline copy between two layouts leaves the source
\* layout, tree and mtime, as it was and sets the mtime of the target to
\* the time of the call.
C19_CopyLeavesSource ==
    (/\ impl = "offline"
     /\ Succeeded
     /\ op.kind = "copy"
     /\ op.src # op.tgt)
    => (/\ PostWs[op.src] = PreWs[op.src]
        /\ PostWs[op.tgt].mtime = now)

C19_Witness ==
    /\ impl = "offline"
    /\ Succeeded
    /\ op.kind = "copy"
    /\ op.src = "A"
    /\ op.tgt = "B"
    /\ IsTabOf(PreWs, "A", "x")
    /\ Len(TabsOf(PostWs, "B")) > Len(TabsOf(PreWs, "B"))
    /\ PostWs["B"].mtime # PreWs["B"].mtime

\* C20: a plugin delete none of whose ids is a tab of the layout, no
\* storage call failing, returns true and leaves workspaces.json, the
\* mtime of the layout included, as it was.
NoneRequestedFound ==
    /\ impl = "plugin"
    /\ Done
    /\ op.kind = "delete"
    /\ LayoutsExisted
    /\ failedAt = "none"
    /\ RequestedTabs(PreWs, op.src, op.ids) = {}

C20_NothingFoundNothingWritten ==
    NoneRequestedFound => (result = "ok" /\ file = pre)

C20_Witness ==
    /\ NoneRequestedFound
    /\ op.ids = <<"z">>
    /\ result = "ok"
    /\ Cardinality(Existing(backups)) > 0

\* C16: the steps of two requests on one vault are never interleaved: at
\* most one request is between the end of its beginTransaction and its
\* commit or the end of its rollback.
InTransaction(r) ==
    reqs[r].pc \in {"load", "w_tmp", "w_rename", "w_cleanup", "rollback", "commit",
                    "report"}

C16_OneTransactionAtATime ==
    Cardinality({r \in Requesters : InTransaction(r)}) <= 1

\* C17: while Obsidian is reported as running, no step of a request
\* changes workspaces.json.
C17_NoWriteWhileRunning ==
    [][isRunning => file' = file]_vars

\* C21: move, copy and delete search and change the main tree only: when a
\* call has ended, whatever its outcome, every layout of the document that
\* workspaces.json holds has the left and right subtrees it had when the
\* call started.
C21_SidebarsUntouched ==
    (Done /\ pre.kind = "json" /\ file.kind = "json")
    => (/\ DOMAIN PostWs = DOMAIN PreWs
        /\ \A n \in DOMAIN PreWs :
              /\ PostWs[n].left = PreWs[n].left
              /\ PostWs[n].right = PreWs[n].right)

\* A request for the id of the note in the left sidebar was served and the
\* document was saved.
C21_Witness ==
    /\ Succeeded
    /\ op.ids = <<"z", "x">>
    /\ op.src # op.tgt
    /\ file # pre
    /\ PostWs[op.src].left = LeftSidebar

\* The pre-order on positions
Before(p, q) ==
    \E k \in 1..Len(q) :
        /\ k <= Len(p) + 1
        /\ SubSeq(p, 1, k - 1) = SubSeq(q, 1, k - 1)
        /\ (k = Len(p) + 1 \/ p[k] < q[k])

LeavesWithFile(main) ==
    {p \in PathsOf(main) : NodeAt(main, p).type = "leaf" /\ NodeAt(main, p).file # ""}

ExtractedExactly ==
    navOp.name = "extract" =>
        LET S == LeavesWithFile(navArg.main)
        IN  /\ Len(navOut) = Cardinality(S)
            /\ \A p \in S :
                  LET n == NodeAt(navArg.main, p)
                      i == 1 + Cardinality({q \in S : Before(q, p)})
                  IN  navOut[i] = [id |-> n.id, filePath |-> n.file]

\* C22: extractTabsFromWorkspace returns the leaves of main that have a
\* file, each once, in depth-first pre-order, left to right over children;
\* leaves without a file are left out and the layout is not modified.
C22_ExtractTabs ==
    []ExtractedExactly /\ [][navArg' = navArg]_vars

C22_Witness ==
    /\ navOp.name = "extract"
    /\ Len(navOut) = 3
    /\ \E p \in PathsOf(navArg.main) :
          NodeAt(navArg.main, p).type = "leaf" /\ NodeAt(navArg.main, p).file = ""

\* The call has ended and its transaction is Idle again, by commit or by
\* rollback
TransactionEnded ==
    /\ pc = "idle"
    /\ transactionBackupPath \in {Null, NoBackup}
    /\ (result = "ok" \/ rb # "none")

\* C23: once beginTransaction has run in a call, every storage call
\* returning or failing, the call eventually ends with its transaction
\* committed or rolled back: it does not stay Active and does not stop in
\* between.
C23_TransactionEnds ==
    (began /\ pc # "idle") ~> TransactionEnded

\* C24: writeAtomically renames the temp file over workspaces.json only
\* after the temp content was read back and parsed; what it installs
\* parses.
C24_RenameAfterValidation ==
    [][(pc = "w_rename" /\ pc' \in {"commit", "report"})
       => (tmpChecked /\ file' = tmp /\ Parseable(file'))]_vars

\* C25: when a step of writeAtomically has failed, the temp file is gone
\* unless its removal failed, and the error thrown to the caller of
\* writeAtomically is the one of the step that failed, also when the
\* removal of the temp file fails.
C25_CleanupKeepsError ==
    [][pc = "w_cleanup"
       => (/\ tmp' \in {Absent, tmp}
           /\ err' \in {"error", "fatal"})]_vars

\* A step of the plugin's createBackup in which the backup of a parseable
\* workspaces.json was written under a new name and pruneOldBackups failed
\* (a failed write leaves no backup or an unparseable one)
PruneFailed ==
    /\ impl = "plugin"
    /\ pc \in {"begin", "save"}
    /\ Parseable(file)
    /\ faults' = faults + 1
    /\ backups[now'].kind = "absent"
    /\ backups'[now'] = file

\* C26: a failure while listing or deleting old backups does not make
\* createBackup or the operation fail: createBackup returns the path of
\* the new backup and the operation goes on to its next step.
C26_PruneFailureTolerated ==
    [][PruneFailed
       => (/\ pc' = (IF pc = "begin" THEN "load" ELSE "w_tmp")
           /\ err' = "none"
           /\ failedAt' = "none"
           /\ pc = "begin" => (transactionBackupPath' = now' /\ began'))]_vars

\* A call in which a removal of pruneOldBackups failed has returned true:
\* more backups are left than the retention count allows.
C26_Witness ==
    /\ impl = "plugin"
    /\ Done
    /\ calls = 1
    /\ faults = 1
    /\ result = "ok"
    /\ Cardinality(Existing(backups)) > EffectiveMaxBackups(maxBackups)

\* The first node in pre-order, below the root, that is a leaf with the id
FirstMatch(main, tabId) ==
    LET M == {p \in PathsOf(main) \ {<<>>} :
                 NodeAt(main, p).id = tabId /\ NodeAt(main, p).type = "leaf"}
    IN  IF M = {} THEN NotFound
        ELSE CHOOSE p \in M : \A q \in M \ {p} : Before(p, q)

\* C27: detaching a found tab removes exactly one node from the children
\* of exactly one parent; the parent stays where it is, also with no
\* children left. A tab that is not found changes nothing.
C27_DetachExactlyOne ==
    navOp.name = "remove" =>
        LET main == navArg.main
            p    == FirstMatch(main, navOp.tabId)
        IN  IF p = NotFound
            THEN navOut = [main |-> main, found |-> FALSE]
            ELSE LET parent == NodeAt(main, Front(p))
                 IN  /\ navOut.found
                     /\ navOut.main =
                          ReplaceAt(main, Front(p),
                                    [parent EXCEPT !.kids = RemoveAt(@, p[Len(p)])])

\* A step in which createBackup returned the path of a backup
CreateBackupReturned ==
    \/ pc = "begin" /\ pc' = "load" /\ transactionBackupPath' \in Timestamps
    \/ pc = "save" /\ pc' = "w_tmp"

\* C28: backups are immutable and distinct: a createBackup that succeeds
\* adds a backup under a name not in use, and leaves the content of every
\* backup that exists as it is (pruning may delete it), also when two
\* backups are taken within the same millisecond.
C28_BackupsImmutable ==
    [][CreateBackupReturned
       => (/\ backups[now'].kind = "absent"
           /\ backups'[now'].kind # "absent"
           /\ \A ts \in Timestamps \ {now'} :
                 backups'[ts] \in {backups[ts], Absent})]_vars

\* The ids of the nodes of a layout (main and both sidebars) are distinct
IdsUnique(layout) ==
    LET roots == <<layout.main, layout.left, layout.right>>
        nodes == UNION {{<<i, p>> : p \in PathsOf(roots[i])} : i \in 1..3}
    IN  \A a, b \in nodes :
            a # b => NodeAt(roots[a[1]], a[2]).id # NodeAt(roots[b[1]], b[2]).id

\* C29: a move or copy between two layouts that succeeds on a document
\* whose layouts all have unique node ids leaves a document whose layouts
\* all have unique node ids.
C29_IdsStayUnique ==
    (/\ Succeeded
     /\ op.kind \in {"move", "copy"}
     /\ op.src # op.tgt
     /\ \A n \in DOMAIN PreWs : IdsUnique(PreWs[n]))
    => \A n \in DOMAIN PostWs : IdsUnique(PostWs[n])

\* C30: renameWorkspace(oldName, newName) on an existing workspace saves
\* its layout under newName: when the call has ended a workspace named
\* newName exists and holds the layout, whatever newName is, oldName
\* included.
C30_RenameKeepsLayout ==
    (/\ renaming.pc = "done"
     /\ instance.enabled
     /\ renaming.oldName \in DOMAIN renaming.before)
    => (/\ renaming.newName \in DOMAIN instance.workspaces
        /\ instance.workspaces[renaming.newName] = renaming.before[renaming.oldName])

\* A step of the plugin's rollbackTransaction that wrote the backup named by
\* transactionBackupPath over workspaces.json
Restored ==
    /\ impl = "plugin"
    /\ pc = "rollback"
    /\ rb' = "restored"

\* C31: over any sequence of plugin calls, storage failing at any step,
\* rollbackTransaction restores only the backup created by beginTransaction
\* of the call it runs in: beginTransaction has completed in that call.
C31_RestoresOwnBackup ==
    [][Restored => began]_vars

\* The plugin's transaction of the running call is Active: beginTransaction
\* has returned and neither commitTransaction nor rollbackTransaction has
\* run yet
ActiveInCall ==
    /\ impl = "plugin"
    /\ began
    /\ pc \notin {"idle", "begin", "report"}
    /\ transactionBackupPath \in Timestamps

\* C32: for every retention count of at least 1, the backup named by an
\* Active transaction is not deleted by pruneOldBackups before the
\* transaction commits or rolls back.
C32_RecoveryPointKept ==
    (ActiveInCall /\ EffectiveMaxBackups(maxBackups) >= 1)
    => backups[transactionBackupPath].kind # "absent"

\* The transfer of a request is in the document: every id it named is a
\* tab of the target and, after a move, no tab of the source
TransferPresent(q, content) ==
    /\ content.kind = "json"
    /\ \A i \in 1..Len(q.ids) :
          /\ IsTabOf(content.doc.workspaces, q.tgt, q.ids[i])
          /\ q.kind = "move" => ~IsTabOf(content.doc.workspaces, q.src, q.ids[i])

\* No handler of the server is between its first and its last step
ServerQuiet == \A r \in Requesters : reqs[r].pc \in {"idle", "done"}

\* C33: when the requests in flight on a vault have all been answered,
\* the transfer of every request that was answered with success is in
\* workspaces.json: no other request's rollback or temp file has
\* overwritten it.
C33_ReportedTransfersPersist ==
    ServerQuiet =>
        \A r \in Requesters :
            reqs[r].result = "ok" => TransferPresent(reqs[r].op, file)

\* The list of ids of the request names some id more than once
HasRepeatedId(ids) == \E i, j \in 1..Len(ids) : i # j /\ ids[i] = ids[j]

\* C34: a plugin move between two layouts whose tabIds name the same id
\* more than once, the id being a tab of the source and no tab of the
\* target, leaves the tab exactly once in the target and not in the
\* source.
C34_RepeatedIdMovedOnce ==
    (/\ impl = "plugin"
     /\ Succeeded
     /\ op.kind = "move"
     /\ op.src # op.tgt
     /\ HasRepeatedId(op.ids))
    => \A id \in IdsOf(op.ids) :
          (IsTabOf(PreWs, op.src, id) /\ ~IsTabOf(PreWs, op.tgt, id))
          => (/\ Occurrences(TabsOf(PostWs, op.tgt), id) = 1
              /\ ~IsTabOf(PostWs, op.src, id))

TabIds(main) == {tab.id : tab \in {extractFromNode(main)[i] : i \in 1..Len(extractFromNode(main))}}

\* C35: moveTabsBetweenWorkspaces called with the same layout as source
\* and target never loses a tab: the layout has the same set of tab ids
\* after the call as before.
C35_MoveWithinKeepsTabs ==
    navOp.name = "move" => TabIds(navOut) = TabIds(navArg.main)

\* C36: listing and lookup agree: in a layout with unique ids, every tab
\* id that extractTabsFromWorkspace lists is found by the lookup of move
\* and delete, so that removing it takes it out of the layout, also when
\* the tab is the root of main.
C36_ListedTabsAreFound ==
    (/\ navOp.name = "remove"
     /\ IdsUnique(navArg)
     /\ navOp.tabId \in TabIds(navArg.main))
    => (/\ navOut.found
        /\ navOp.tabId \notin TabIds(navOut.main))

\* The steps a call takes on a file that cannot be read or parsed: the
\* save is never reached
OnlyFailingSteps ==
    /\ pc \notin {"save", "commit", "w_validate", "w_bak", "w_remove"}
    /\ pc \in {"w_tmp", "w_rename", "w_cleanup"} => (impl = "offline" /\ wctx = "rollback")

\* C37: getWorkspaces returns the empty document {workspaces: {}, active:
\* ''} when workspaces.json cannot be read or parsed, and a move, copy or
\* delete run on such a file fails and never puts that empty document in
\* the place of the file's bytes.
C37_DefaultNeverWritten ==
    /\ ~Parseable(file) => \A readOk \in BOOLEAN : getWorkspaces(file, readOk) = EmptyDoc
    /\ \A readOk \in BOOLEAN : getWorkspaces(pre, readOk) = EmptyDoc
    /\ ~(Parseable(file) /\ file.doc = EmptyDoc)
    /\ Done => result \in {"threw", "false", "fatal"}
    /\ OnlyFailingSteps

\* A call on an unparseable workspaces.json has failed and its rollback
\* has written the bytes of the backup, the file's own, back
C37_Witness ==
    /\ Done
    /\ pre = Garbage
    /\ failedAt = "load"
    /\ rb = "restored"
    /\ file = Garbage

\* C38: pruneOldBackups deletes only files whose names match
\* workspaces-backup-<timestamp>.json: every other file of the backup
\* folder is still there after it, whatever the number of files.
C38_OnlyBackupsPruned ==
    [][\A i \in 1..Len(folder) :
          folder[i].stamp = 0 => \E k \in 1..Len(folder') : folder'[k] = folder[i]]_vars

====
